---- MODULE Spec2Model ----
(***************************************************************************)
(* Model of the in-page interaction engine of big-brother                  *)
(* (src/src/content/content.ts): feature extraction, selector generation   *)
(* and resolution, highlights and the tracking overlay, the action         *)
(* executor and the event waiter.                                          *)
(*                                                                         *)
(* The document is a sequence of elements in document order; an element's  *)
(* identity is its position in that sequence and never changes (a removed  *)
(* element stays in the sequence with attached = FALSE).  Strings are      *)
(* TLA+ strings, so selectors and de-duplication keys are built by         *)
(* concatenation and read back by scanning, as the code does.              *)
(***************************************************************************)
EXTENDS Integers, Sequences, FiniteSets, TLC

(***************************************************************************)
(* String helpers (JavaScript String.prototype and RegExp uses)            *)
(***************************************************************************)
CharAt(s, i) == SubSeq(s, i, i)

StartsWith(s, p) == Len(s) >= Len(p) /\ SubSeq(s, 1, Len(p)) = p

EndsWith(s, p) == Len(s) >= Len(p) /\ SubSeq(s, Len(s) - Len(p) + 1, Len(s)) = p

\* First position >= from at which p occurs in s, 0 if none.
IndexFrom(s, p, from) ==
  LET hits == {i \in from..(Len(s) - Len(p) + 1) : SubSeq(s, i, i + Len(p) - 1) = p}
  IN IF hits = {} THEN 0 ELSE CHOOSE i \in hits : \A j \in hits : i <= j

Includes(s, p) == IndexFrom(s, p, 1) # 0

Substring0(s, n) == IF Len(s) <= n THEN s ELSE SubSeq(s, 1, n)

CharIn(c, alphabet) == \E i \in 1..Len(alphabet) : CharAt(alphabet, i) = c

AllCharsIn(s, alphabet) == \A i \in 1..Len(s) : CharIn(CharAt(s, i), alphabet)

LetterChars == "abcdefghijklmnopqrstuvwxyzABCDEFGHIJKLMNOPQRSTUVWXYZ"
DigitChars == "0123456789"
WordChars == LetterChars \o DigitChars \o "_"

RECURSIVE Split(_, _)
Split(s, sep) ==
  LET i == IndexFrom(s, sep, 1)
  IN IF i = 0 THEN <<s>>
     ELSE <<SubSeq(s, 1, i - 1)>> \o Split(SubSeq(s, i + Len(sep), Len(s)), sep)

RECURSIVE Join(_, _)
Join(parts, sep) ==
  IF Len(parts) = 0 THEN ""
  ELSE IF Len(parts) = 1 THEN parts[1]
  ELSE parts[1] \o sep \o Join(Tail(parts), sep)

Take(q, n) == IF Len(q) <= n THEN q ELSE SubSeq(q, 1, n)

SeqContains(q, x) == \E i \in 1..Len(q) : q[i] = x

(***************************************************************************)
(* The document                                                            *)
(*                                                                         *)
(* An element carries the attributes and layout facts the engine reads.    *)
(* An absent attribute and an empty one are both "": every read in the     *)
(* code is of the form getAttribute(x) || '' or a truthiness test.  anc is *)
(* the set of kinds of ancestors the extraction's queries ask about.       *)
(* label is the text findLabelFor finds for the element.  A style property *)
(* is its inline value and its priority.                                   *)
(***************************************************************************)
NoStyle == [v |-> "", imp |-> FALSE]

Elem(tag, id, name, classes, href, text) ==
  [tag |-> tag, id |-> id, name |-> name, classes |-> classes, href |-> href,
   text |-> text, ariaLabel |-> "", type |-> "", role |-> "", placeholder |-> "",
   value |-> "", label |-> "", anc |-> {},
   display |-> "block", visibility |-> "visible", opacity |-> "1", w |-> 10, h |-> 10,
   attached |-> TRUE, bbid |-> "",
   outline |-> NoStyle, outlineOffset |-> NoStyle, boxShadow |-> NoStyle]

Indices(d) == [i \in 1..Len(d) |-> i]

\* document.body.contains(el)
AnyNode(d, e) == TRUE
InDocument(d, e) == d[e].attached

(***************************************************************************)
(* The selector engine: document.querySelectorAll / querySelector on the   *)
(* selector forms the engine writes (#id, tag[name="v"], tag.c1.c2.c3,     *)
(* [data-bb-id="v"]) or is handed by a caller.  A string that is not a     *)
(* selector makes the query throw.                                         *)
(***************************************************************************)
IsCssIdent(v) ==
  /\ v # ""
  /\ AllCharsIn(v, WordChars \o "-")
  /\ ~CharIn(CharAt(v, 1), DigitChars)

IsAttrValue(v) == ~Includes(v, "\"") /\ ~Includes(v, "\\")

BbOpen == "[data-bb-id=\""
NameOpen == "[name=\""
AttrClose == "\"]"

Between(s, open, at) == SubSeq(s, at + Len(open), Len(s) - Len(AttrClose))

ParseSelector(s) ==
  LET none == [valid |-> FALSE, kind |-> "none", tag |-> "", val |-> "", classes |-> <<>>]
      nameAt == IndexFrom(s, NameOpen, 1)
  IN IF StartsWith(s, "#")
       THEN [none EXCEPT !.valid = IsCssIdent(SubSeq(s, 2, Len(s))), !.kind = "id",
                         !.val = SubSeq(s, 2, Len(s))]
     ELSE IF StartsWith(s, BbOpen) /\ EndsWith(s, AttrClose)
                /\ Len(s) >= Len(BbOpen) + Len(AttrClose)
       THEN [none EXCEPT !.valid = IsAttrValue(Between(s, BbOpen, 1)), !.kind = "bbid",
                         !.val = Between(s, BbOpen, 1)]
     ELSE IF nameAt > 1 /\ EndsWith(s, AttrClose)
                /\ Len(s) >= nameAt + Len(NameOpen) + Len(AttrClose) - 1
       THEN [none EXCEPT !.valid = IsCssIdent(SubSeq(s, 1, nameAt - 1))
                                      /\ IsAttrValue(Between(s, NameOpen, nameAt)),
                         !.kind = "name", !.tag = SubSeq(s, 1, nameAt - 1),
                         !.val = Between(s, NameOpen, nameAt)]
     ELSE IF Includes(s, ".")
       THEN LET parts == Split(s, ".")
            IN [none EXCEPT !.valid = /\ (parts[1] = "" \/ IsCssIdent(parts[1]))
                                      /\ \A i \in 2..Len(parts) : IsCssIdent(parts[i]),
                            !.kind = "class", !.tag = parts[1], !.classes = Tail(parts)]
     ELSE [none EXCEPT !.valid = IsCssIdent(s), !.kind = "tag", !.tag = s]

Matches(el, p) ==
  CASE p.kind = "id" -> el.id = p.val
    [] p.kind = "bbid" -> el.bbid = p.val
    [] p.kind = "name" -> el.tag = p.tag /\ el.name = p.val /\ el.name # ""
    [] p.kind = "class" -> /\ (p.tag = "" \/ el.tag = p.tag)
                           /\ \A i \in 1..Len(p.classes) : SeqContains(el.classes, p.classes[i])
    [] p.kind = "tag" -> el.tag = p.tag
    [] OTHER -> FALSE

\* document.querySelectorAll(s): threw, or the attached elements matching s
\* in document order.
QuerySelectorAll(d, s) ==
  LET p == ParseSelector(s)
  IN IF ~p.valid THEN [threw |-> TRUE, els |-> <<>>]
     ELSE [threw |-> FALSE,
           els |-> SelectSeq(Indices(d), LAMBDA e : d[e].attached /\ Matches(d[e], p))]

Null == 0

\* document.querySelector(s): the first match, Null if none.
QuerySelector(d, s) ==
  LET r == QuerySelectorAll(d, s)
  IN [threw |-> r.threw, el |-> IF Len(r.els) = 0 THEN Null ELSE r.els[1]]

(***************************************************************************)
(* Layout reads                                                            *)
(***************************************************************************)
\* element.getBoundingClientRect(): an element outside the document or with
\* display none has an empty box.
RectOf(el) ==
  IF el.attached /\ el.display # "none" THEN [width |-> el.w, height |-> el.h]
  ELSE [width |-> 0, height |-> 0]

isVisible(el) ==
  /\ el.display # "none"
  /\ el.visibility # "hidden"
  /\ el.opacity # "0"
  /\ RectOf(el).width > 0
  /\ RectOf(el).height > 0

(***************************************************************************)
(* Selector resolver and element cache.  G is the part of the engine state *)
(* selector generation reads and writes: the document (the data-bb-id      *)
(* attribute), elementCache and selectorCounter.                           *)
(***************************************************************************)
\* /^[a-zA-Z][\w-]*$/
ValidId(id) ==
  /\ id # ""
  /\ CharIn(CharAt(id, 1), LetterChars)
  /\ AllCharsIn(id, WordChars \o "-")

\* /^(hover|focus|active|selected|disabled)/
IsTransient(c) ==
  \E w \in {"hover", "focus", "active", "selected", "disabled"} : StartsWith(c, w)

MatchesSome(d, selector) ==
  LET r == QuerySelectorAll(d, selector) IN ~r.threw /\ Len(r.els) >= 1

\* document.querySelectorAll(selector).length === 1 inside try/catch
MatchesOne(d, selector) ==
  LET r == QuerySelectorAll(d, selector) IN ~r.threw /\ Len(r.els) = 1

IdSelector(el) == "#" \o el.id

NameSelector(el) == el.tag \o NameOpen \o el.name \o AttrClose

StableClasses(el) == SelectSeq(el.classes, LAMBDA c : c # "" /\ ~IsTransient(c))

MaxSelectorClasses == 3

ClassSelector(el) == el.tag \o "." \o Join(Take(StableClasses(el), MaxSelectorClasses), ".")

MarkerSelector(uniqueId) == BbOpen \o uniqueId \o AttrClose

CacheSet(cache, k, e) == [x \in DOMAIN cache \cup {k} |-> IF x = k THEN e ELSE cache[x]]

generateSelector(G, e) ==
  LET el == G.dom[e]
      uniqueId == "bb-" \o ToString(G.ctr)
  IN IF el.id # "" /\ ValidId(el.id) /\ MatchesOne(G.dom, IdSelector(el))
       THEN [sel |-> IdSelector(el), G |-> G]
     ELSE IF el.tag \in {"input", "textarea", "select"} /\ el.name # ""
                /\ MatchesOne(G.dom, NameSelector(el))
       THEN [sel |-> NameSelector(el), G |-> G]
     ELSE IF Len(StableClasses(el)) > 0 /\ MatchesOne(G.dom, ClassSelector(el))
       THEN [sel |-> ClassSelector(el), G |-> G]
     ELSE [sel |-> MarkerSelector(uniqueId),
           G |-> [dom |-> [G.dom EXCEPT ![e].bbid = uniqueId],
                  cache |-> CacheSet(G.cache, uniqueId, e),
                  ctr |-> G.ctr + 1]]

\* selector.match(/\[data-bb-id="([^"]+)"\]/): the captured id of the first
\* match, "" if the selector does not match.
CacheMatch(selector) ==
  LET ends(i) == IndexFrom(selector, "\"", i + Len(BbOpen))
      hits == {i \in 1..(Len(selector) - Len(BbOpen) + 1) :
                 /\ SubSeq(selector, i, i + Len(BbOpen) - 1) = BbOpen
                 /\ ends(i) > i + Len(BbOpen)
                 /\ ends(i) < Len(selector)
                 /\ SubSeq(selector, ends(i), ends(i) + 1) = AttrClose}
      first == CHOOSE i \in hits : \A j \in hits : i <= j
  IN IF hits = {} THEN "" ELSE SubSeq(selector, first + Len(BbOpen), ends(first) - 1)

getElementBySelector(G, selector) ==
  LET cachedId == CacheMatch(selector)
      q == QuerySelector(G.dom, selector)
  IN IF cachedId # "" /\ cachedId \in DOMAIN G.cache /\ InDocument(G.dom, G.cache[cachedId])
       THEN G.cache[cachedId]
     ELSE IF q.threw THEN Null ELSE q.el

(***************************************************************************)
(* Feature extractor                                                       *)
(*                                                                         *)
(* A feature is the record the code builds plus el, the element it was     *)
(* built from (not a field of the code's record: it is kept so that        *)
(* properties can speak of the originating element).  An optional string   *)
(* field that the code leaves undefined is "".                             *)
(***************************************************************************)
MaxLinks == 60
MaxInputs == 75
MaxButtons == 75
MaxTextLen == 100

NavAncestors == {"header", "footer", "nav", "navigation"}
ProductAncestors == {"product", "item", "card", "article"}
CartAncestors == {"cartform", "productform"}

\* '.product-card a, .product-item a, .product a, [class*="product"] a, ...'
IsProductLink(el) == el.tag = "a" /\ el.anc \cap ProductAncestors # {}

\* 'a[href]:not(header a):not(footer a):not(nav a):not([role="navigation"] a)'
IsOtherLink(el) == el.tag = "a" /\ el.href # "" /\ el.anc \cap NavAncestors = {}

\* 'input:not([type="hidden"]):not([type="button"]):not([type="submit"]), textarea, select'
IsInput(el) ==
  \/ el.tag = "input" /\ el.type \notin {"hidden", "button", "submit"}
  \/ el.tag \in {"textarea", "select"}

\* '.add-to-cart, .addtocart, [class*="add-to-cart"], [class*="AddToCart"],
\*  [id*="add-to-cart"], [id*="AddToCart"], [name*="add"], button[name="add"],
\*  button[type="submit"], form[action*="cart"] button, product-form button'
IsActionButton(el) ==
  \/ \E i \in 1..Len(el.classes) :
        \/ el.classes[i] = "addtocart"
        \/ Includes(el.classes[i], "add-to-cart")
        \/ Includes(el.classes[i], "AddToCart")
  \/ Includes(el.id, "add-to-cart") \/ Includes(el.id, "AddToCart")
  \/ Includes(el.name, "add")
  \/ el.tag = "button" /\ el.type = "submit"
  \/ el.tag = "button" /\ el.anc \cap CartAncestors # {}

\* 'button, input[type="button"], input[type="submit"], [role="button"]'
IsOtherButton(el) ==
  \/ el.tag = "button"
  \/ el.tag = "input" /\ el.type \in {"button", "submit"}
  \/ el.role = "button"

\* Array.from(document.querySelectorAll(...)) for the five fixed queries:
\* the matching elements of the document, in document order.
Attached(d) == SelectSeq(Indices(d), LAMBDA e : d[e].attached)
ProductLinks(d) == SelectSeq(Attached(d), LAMBDA e : IsProductLink(d[e]))
OtherLinks(d) == SelectSeq(Attached(d), LAMBDA e : IsOtherLink(d[e]))
Inputs(d) == SelectSeq(Attached(d), LAMBDA e : IsInput(d[e]))
ActionButtons(d) == SelectSeq(Attached(d), LAMBDA e : IsActionButton(d[e]))
OtherButtons(d) == SelectSeq(Attached(d), LAMBDA e : IsOtherButton(d[e]))

Feature(index, type, text, selector, el) ==
  [index |-> index, type |-> type, text |-> text, selector |-> selector,
   href |-> "", placeholder |-> "", aria_label |-> "", value_len |-> 0,
   already_clicked |-> FALSE, el |-> el]

Or(a, b) == IF a # "" THEN a ELSE b

\* [...productLinks, ...otherLinks]
AllLinksOthersFirst(d) == OtherLinks(d) \o ProductLinks(d)
AllLinks(d) == ProductLinks(d) \o OtherLinks(d)

LinkBudgetOffByOne(feats) == Len(feats) > MaxLinks
LinkBudgetReached(feats) == Len(feats) >= MaxLinks

\* One pass of the loop over allLinks; st is [G, feats, index, seen] with
\* seen = seenUrls, g the result of generateSelector.
LinkFeature(st, e, g, clicked) ==
  [Feature(st.index, "link",
           Substring0(Or(st.G.dom[e].text, st.G.dom[e].ariaLabel), MaxTextLen), g.sel, e)
     EXCEPT !.href = st.G.dom[e].href, !.aria_label = st.G.dom[e].ariaLabel,
            !.already_clicked = g.sel \in clicked]

LinkPush(st, e, g, clicked) ==
  [st EXCEPT !.G = g.G, !.feats = Append(@, LinkFeature(st, e, g, clicked)),
             !.index = @ + 1, !.seen = @ \cup {st.G.dom[e].href}]

LinkStep(st, e, clicked) ==
  LET el == st.G.dom[e]
      href == el.href
  IN IF href = "" \/ StartsWith(href, "javascript:") \/ href = "#" THEN st
     ELSE IF el.anc \cap NavAncestors # {} THEN st
     ELSE IF href \in st.seen THEN st
     ELSE IF \/ ~isVisible(el)
             \/ el.text = "" /\ el.ariaLabel = ""
             \/ StartsWith(href, "#") /\ ~Includes(href, "MainContent")
       THEN [st EXCEPT !.seen = @ \cup {href}]
     ELSE LinkPush(st, e, generateSelector(st.G, e), clicked)

RECURSIVE LinkLoop(_, _, _)
LinkLoop(cands, clicked, st) ==
  IF Len(cands) = 0 \/ LinkBudgetReached(st.feats) THEN st
  ELSE LinkLoop(Tail(cands), clicked, LinkStep(st, Head(cands), clicked))

\* One pass of the loop over inputs.
InputFeature(st, e, g, clicked) ==
  [Feature(st.index, "input",
           Or(st.G.dom[e].label, Or(st.G.dom[e].name, Or(st.G.dom[e].placeholder,
              Or(st.G.dom[e].type, "text")))),
           g.sel, e)
     EXCEPT !.placeholder = st.G.dom[e].placeholder,
            !.aria_label = Or(st.G.dom[e].ariaLabel, st.G.dom[e].label),
            !.value_len = Len(st.G.dom[e].value),
            !.already_clicked = g.sel \in clicked]

InputPush(st, e, g, clicked) ==
  [st EXCEPT !.G = g.G, !.feats = Append(@, InputFeature(st, e, g, clicked)),
             !.index = @ + 1]

\* findLabelFor: document.querySelector(`label[for="${id}"]`) is not in a
\* try block; an id that ends the quoted value early makes it throw.
LabelSelector(el) == "label[for=\"" \o el.id \o "\"]"
LabelQueryThrows(el) == el.id # "" /\ ~IsAttrValue(el.id)

InputStep(st, e, clicked) ==
  IF ~isVisible(st.G.dom[e]) THEN st
  ELSE IF LabelQueryThrows(st.G.dom[e]) THEN [st EXCEPT !.threw = TRUE]
  ELSE InputPush(st, e, generateSelector(st.G, e), clicked)

RECURSIVE InputLoop(_, _, _)
InputLoop(cands, clicked, st) ==
  IF Len(cands) = 0 \/ st.threw \/ Len(st.feats) >= MaxInputs THEN st
  ELSE InputLoop(Tail(cands), clicked, InputStep(st, Head(cands), clicked))

\* [...actionButtons, ...otherButtons]
AllButtons(d) == ActionButtons(d) \o OtherButtons(d)

LooksLikeCss(text) ==
  Includes(text, ".cls-") \/ Includes(text, "{") \/ Includes(text, "fill:")
    \/ Includes(text, "stroke:")

\* One pass of the loop over allButtons; st.seen is seenButtonSelectors.
\* An element's text is its text content without its style, script and svg
\* subtrees.
ButtonText(el) == Or(el.text, el.value)

ButtonFeature(st, e, g, clicked) ==
  [Feature(st.index, "button",
           Substring0(Or(ButtonText(st.G.dom[e]), Or(st.G.dom[e].ariaLabel, st.G.dom[e].name)),
                      MaxTextLen),
           g.sel, e)
     EXCEPT !.aria_label = st.G.dom[e].ariaLabel,
            !.already_clicked = g.sel \in clicked]

ButtonPush(st, e, g, clicked) ==
  IF g.sel \in st.seen THEN [st EXCEPT !.G = g.G]
  ELSE [st EXCEPT !.G = g.G, !.seen = @ \cup {g.sel},
                  !.feats = Append(@, ButtonFeature(st, e, g, clicked)), !.index = @ + 1]

ButtonStep(st, e, clicked) ==
  LET el == st.G.dom[e]
      isAction == IsActionButton(el)
  IN IF ~isAction /\ ~isVisible(el) THEN st
     ELSE IF /\ isAction
             /\ ~(RectOf(el).width > 0 \/ RectOf(el).height > 0)
             /\ ~InDocument(st.G.dom, e)
       THEN st
     ELSE IF LooksLikeCss(ButtonText(el)) THEN st
     ELSE IF ButtonText(el) = "" /\ el.ariaLabel = "" /\ el.name = "" THEN st
     ELSE ButtonPush(st, e, generateSelector(st.G, e), clicked)

RECURSIVE ButtonLoop(_, _, _)
ButtonLoop(cands, clicked, st) ==
  IF Len(cands) = 0 \/ st.threw \/ Len(st.feats) >= MaxButtons THEN st
  ELSE ButtonLoop(Tail(cands), clicked, ButtonStep(st, Head(cands), clicked))

\* features.push(...linkFeatures), then inputFeatures, then buttonFeatures
AssembleInputsFirst(links, inputs, buttons) == inputs \o links \o buttons
Assemble(links, inputs, buttons) == links \o inputs \o buttons

\* `${f.type}:${f.text}:${f.href || ''}`
DedupKey(f) == f.type \o ":" \o f.text \o ":" \o f.href

\* features.filter(...) with the seen set of keys
UniqueFeaturesKeepAll(feats, seen) == feats
RECURSIVE UniqueFeatures(_, _)
UniqueFeatures(feats, seen) ==
  IF Len(feats) = 0 THEN <<>>
  ELSE IF DedupKey(Head(feats)) \in seen THEN UniqueFeatures(Tail(feats), seen)
  ELSE <<Head(feats)>> \o UniqueFeatures(Tail(feats), seen \cup {DedupKey(Head(feats))})

\* uniqueFeatures.forEach((f, idx) => { f.index = idx })
ReindexSkipped(feats) == feats
Reindex(feats) == [i \in 1..Len(feats) |-> [feats[i] EXCEPT !.index = i - 1]]

\* The three collection stages; x is [G, index, links, inputs, buttons, threw]:
\* threw is set once an exception has left the function.
LoopStart(x) ==
  [G |-> x.G, feats |-> <<>>, index |-> x.index, seen |-> {}, threw |-> x.threw]

LinkStage(x, r) == [x EXCEPT !.G = r.G, !.index = r.index, !.links = r.feats]
InputStage(x, r) ==
  [x EXCEPT !.G = r.G, !.index = r.index, !.inputs = r.feats, !.threw = r.threw]
ButtonStage(x, r) == [x EXCEPT !.G = r.G, !.index = r.index, !.buttons = r.feats]

CollectLinks(x, clicked) ==
  LinkStage(x, LinkLoop(AllLinks(x.G.dom), clicked, LoopStart(x)))
CollectInputs(x, clicked) ==
  InputStage(x, InputLoop(Inputs(x.G.dom), clicked, LoopStart(x)))
CollectButtons(x, clicked) ==
  ButtonStage(x, ButtonLoop(AllButtons(x.G.dom), clicked, LoopStart(x)))

Returned(x) ==
  [threw |-> x.threw,
   features |-> IF x.threw THEN <<>>
                ELSE Reindex(UniqueFeatures(Assemble(x.links, x.inputs, x.buttons), {})),
   G |-> x.G]

\* extractPageFeatures(): the inventory returned (or the exception thrown) and
\* the engine state after.
extractPageFeatures(G, clicked) ==
  Returned(CollectButtons(CollectInputs(CollectLinks(
    [G |-> G, index |-> 0, links |-> <<>>, inputs |-> <<>>, buttons |-> <<>>,
     threw |-> FALSE],
    clicked), clicked), clicked))

(***************************************************************************)
(* Highlights, the tracking overlay and the pointer cue                    *)
(*                                                                         *)
(* highlightedElements maps a highlighted element to the outline and       *)
(* box-shadow values read from its inline style before the first           *)
(* highlight.  A timer is [kind, left, el, wait, before, fresh]: left is   *)
(* the time until it is due; before and fresh are bookkeeping for the      *)
(* properties (the style values at the call that set the timer, and        *)
(* whether the element was unhighlighted then), not data of the code.      *)
(***************************************************************************)
HighlightOutline == "3px solid #ff0000"
HighlightOffset == "2px"
HighlightShadow == "0 0 0 4px rgba(255, 0, 0, 0.35)"

DefaultHighlightMs == 5000
PointerFadeMs == 2500

Important(value) == [v |-> value, imp |-> TRUE]

\* element.style.x = value: an empty value removes the property, any other
\* replaces the declaration, without priority.
Assigned(value) == IF value = "" THEN NoStyle ELSE [v |-> value, imp |-> FALSE]

InlineValues(el) == [outline |-> el.outline.v, boxShadow |-> el.boxShadow.v]

MapSet(f, k, x) == [y \in DOMAIN f \cup {k} |-> IF y = k THEN x ELSE f[y]]
MapDrop(f, k) == [y \in DOMAIN f \ {k} |-> f[y]]

Timer(kind, left, el, wait) ==
  [kind |-> kind, left |-> left, el |-> el, wait |-> wait,
   before |-> [outline |-> "", boxShadow |-> ""], fresh |-> FALSE]

NoTimer == Timer("", 0, Null, Null)

\* highlightElement: the record kept for the element.
Snapshot(hl, d, e) ==
  IF e \in DOMAIN hl THEN hl ELSE MapSet(hl, e, InlineValues(d[e]))

\* highlightElement: the three setProperty(..., 'important') calls.
Forced(d, e) ==
  [d EXCEPT ![e].outline = Important(HighlightOutline),
            ![e].outlineOffset = Important(HighlightOffset),
            ![e].boxShadow = Important(HighlightShadow)]

\* highlightElement: the timers after the call.
WithRestoreTimer(tm, hl, d, e, duration) ==
  IF duration > 0
    THEN Append(tm, [Timer("restore", duration, e, Null)
                       EXCEPT !.before = InlineValues(d[e]),
                              !.fresh = e \notin DOMAIN hl])
  ELSE tm

\* The body of highlightElement's setTimeout callback on the document.
RestoredKeepShadow(d, hl, e) ==
  IF e \in DOMAIN hl
    THEN [d EXCEPT ![e].outline = Assigned(hl[e].outline),
                   ![e].outlineOffset = NoStyle]
  ELSE d
Restored(d, hl, e) ==
  IF e \in DOMAIN hl
    THEN [d EXCEPT ![e].outline = Assigned(hl[e].outline),
                   ![e].outlineOffset = NoStyle,
                   ![e].boxShadow = Assigned(hl[e].boxShadow)]
  ELSE d

\* clearAllHighlights on the document: the forEach over highlightedElements.
ClearedUntracked(d, hl) ==
  [e \in 1..Len(d) |-> [d[e] EXCEPT !.outline = NoStyle, !.boxShadow = NoStyle]]
Cleared(d, hl) ==
  [e \in 1..Len(d) |->
     IF e \in DOMAIN hl
       THEN [d[e] EXCEPT !.outline = Assigned(hl[e].outline),
                         !.boxShadow = Assigned(hl[e].boxShadow)]
     ELSE d[e]]

\* stopOverlayTracking / clearAllHighlights on the overlay and the pointer.
Hidden(node) == IF node.exists THEN [node EXCEPT !.display = "none"] ELSE node
Faded(ptr) == IF ptr.exists THEN [ptr EXCEPT !.opacity = "0"] ELSE ptr

\* The overlay is [exists, display, nodes]: highlightOverlay refers to a node
\* of the document, the display of that node, and the number of
\* bb-highlight-overlay nodes in the document.
ensureHighlightOverlay(overlay) ==
  IF overlay.exists THEN overlay
  ELSE [exists |-> TRUE, display |-> "none", nodes |-> overlay.nodes + 1]

\* positionOverlayForElement
Positioned(overlay, el) ==
  [ensureHighlightOverlay(overlay) EXCEPT
     !.display = IF RectOf(el).width > 0 /\ RectOf(el).height > 0 THEN "block" ELSE "none"]

\* window.requestAnimationFrame: a handle no pending callback has.
FreshHandle(pending) == CHOOSE h \in 1..(Cardinality(pending) + 1) : h \notin pending

\* U is the part of the engine state highlighting reads and writes:
\* [dom, hl (highlightedElements), overlay, raf (highlightOverlayRAF),
\*  cur (currentHighlightedEl), frames, pointer, timers].
NotCancelled(U) == U.frames
Cancelled(U) == IF U.raf # Null THEN U.frames \ {U.raf} ELSE U.frames

stopOverlayTracking(U) ==
  [U EXCEPT !.frames = Cancelled(U),
            !.raf = Null,
            !.cur = Null,
            !.overlay = Hidden(U.overlay)]

startOverlayTracking(U, e) ==
  [U EXCEPT !.cur = e,
            !.frames = Cancelled(U) \cup {FreshHandle(Cancelled(U))},
            !.raf = FreshHandle(Cancelled(U))]

\* The tick callback of startOverlayTracking, run for an animation frame
\* (U.frames no longer holds the handle of the running callback).
tick(U) ==
  IF U.cur = Null \/ ~InDocument(U.dom, U.cur) THEN stopOverlayTracking(U)
  ELSE [U EXCEPT !.overlay = Positioned(U.overlay, U.dom[U.cur]),
                 !.frames = U.frames \cup {FreshHandle(U.frames)},
                 !.raf = FreshHandle(U.frames)]

EmptyMap == [k \in {} |-> Null]

clearAllHighlights(U) ==
  [stopOverlayTracking(U) EXCEPT !.dom = Cleared(U.dom, U.hl),
                                 !.hl = EmptyMap,
                                 !.pointer = Faded(U.pointer)]

highlightElement(U, e, duration) ==
  [U EXCEPT !.hl = Snapshot(U.hl, U.dom, e),
            !.dom = Forced(U.dom, e),
            !.timers = WithRestoreTimer(U.timers, U.hl, U.dom, e, duration)]

movePointerToElement(U, e) ==
  [U EXCEPT !.pointer = [exists |-> TRUE, opacity |-> "1"],
            !.timers = Append(U.timers, Timer("fade", PointerFadeMs, Null, Null))]

\* The callbacks of the two setTimeout calls above.
restore(U, e) ==
  [U EXCEPT !.dom = Restored(U.dom, U.hl, e),
            !.hl = IF e \in DOMAIN U.hl THEN MapDrop(U.hl, e) ELSE U.hl]

fade(U) == [U EXCEPT !.pointer.opacity = "0"]

(***************************************************************************)
(* Messages.  A payload field the sender left out is Undefined (numbers)   *)
(* or "" (strings; the code treats an empty selector or text as none); a   *)
(* targetIndex sent as null is NoIndex.                                    *)
(***************************************************************************)
Undefined == -1
NoIndex == -2

\* typeof targetIndex === 'number'
IsNumber(i) == i >= 0

\* `${targetIndex}`
IndexText(i) ==
  IF i = Undefined THEN "undefined" ELSE IF i = NoIndex THEN "null" ELSE ToString(i)

Payload(event, targetIndex, selector, duration, timeoutMs) ==
  [event |-> event, targetIndex |-> targetIndex, selector |-> selector,
   duration |-> duration, timeoutMs |-> timeoutMs, action |-> "", textInput |-> ""]

ActionPayload(action, targetIndex, textInput) ==
  [Payload("", targetIndex, "", Undefined, Undefined)
     EXCEPT !.action = action, !.textInput = textInput]

Message(type, payload) == [type |-> type, payload |-> payload]
NoMessage == Message("", Payload("", Undefined, "", Undefined, Undefined))

Success(text) == [sent |-> TRUE, success |-> TRUE, text |-> text]
Failure(text) == [sent |-> TRUE, success |-> FALSE, text |-> text]
NoResponse == [sent |-> FALSE, success |-> FALSE, text |-> ""]

\* features?.find((f) => f.index === targetIndex) on a fresh inventory
Found(r, targetIndex) ==
  [G |-> r.G, scanned |-> TRUE, threw |-> r.threw,
   hits |-> SelectSeq(r.features, LAMBDA f : f.index = targetIndex)]

\* error.message of the exception extractPageFeatures lets through
ThrownMessage == "not a valid selector"

\* "Prefer stable selector, fallback to targetIndex": the selector resolved
\* ("" for none), the label of the feature found and the engine state after.
WithSelector(x) ==
  [G |-> x.G, scanned |-> x.scanned, threw |-> x.threw,
   selector |-> IF Len(x.hits) > 0 THEN x.hits[1].selector ELSE "",
   labelText |-> IF Len(x.hits) > 0 THEN x.hits[1].text ELSE ""]

Resolved(G, clicked, payload) ==
  IF payload.selector # ""
    THEN [G |-> G, scanned |-> FALSE, threw |-> FALSE, selector |-> payload.selector,
          labelText |-> ""]
  ELSE IF IsNumber(payload.targetIndex)
    THEN WithSelector(Found(extractPageFeatures(G, clicked), payload.targetIndex))
  ELSE [G |-> G, scanned |-> FALSE, threw |-> FALSE, selector |-> "", labelText |-> ""]

(***************************************************************************)
(* Event waiter.  A wait is one promise waitForEvent created: the event    *)
(* waited for, the element listened on (Window for scroll), its done flag  *)
(* and what it resolved with; settles counts the calls of resolve, noops   *)
(* the callbacks that found done set, age the time since the call (it      *)
(* stops at settlement).  A listener is [target, type, wait].              *)
(***************************************************************************)
Window == 0
DefaultWaitTimeoutMs == 30000

Wait(event, el, timeoutMs) ==
  [event |-> event, el |-> el, timeoutMs |-> timeoutMs, done |-> FALSE,
   settles |-> 0, noops |-> 0, age |-> 0, result |-> NoResponse]

Listener(target, type, w) == [target |-> target, type |-> type, wait |-> w]

NeverDone(wt) == FALSE
AlreadyDone(wt) == wt.done

\* finish(ok, msg) of wait w; W is [waits, listeners].
finish(W, w, result) ==
  IF AlreadyDone(W.waits[w]) THEN [W EXCEPT !.waits[w].noops = @ + 1]
  ELSE [W EXCEPT !.waits[w].done = TRUE,
                 !.waits[w].settles = @ + 1,
                 !.waits[w].result = result,
                 !.listeners = @ \ {Listener(W.waits[w].el, t, w) :
                                      t \in {"click", "input", "change"}}]

\* onScroll of wait w
onScroll(W, w) ==
  IF W.waits[w].done THEN [W EXCEPT !.waits[w].noops = @ + 1]
  ELSE [W EXCEPT !.waits[w].done = TRUE,
                 !.waits[w].settles = @ + 1,
                 !.waits[w].result = Success("Detected scroll"),
                 !.listeners = @ \ {Listener(Window, "scroll", w)}]

\* the setTimeout callback of the scroll branch
ScrollListenerKept(w) == {}
ScrollListenerRemoved(w) == {Listener(Window, "scroll", w)}

scrollTimeout(W, w) ==
  IF W.waits[w].done THEN [W EXCEPT !.waits[w].noops = @ + 1]
  ELSE [W EXCEPT !.waits[w].done = TRUE,
                 !.waits[w].settles = @ + 1,
                 !.waits[w].result = Failure("Timed out waiting for scroll"),
                 !.listeners = @ \ ScrollListenerRemoved(w)]

\* the handlers a listener runs: onClick, onInput
Detected(type) == Success(IF type = "click" THEN "Detected click" ELSE "Detected input")

\* the timeout callback of wait w
timeout(W, w) ==
  IF W.waits[w].event = "scroll" THEN scrollTimeout(W, w)
  ELSE finish(W, w, Failure("Timed out waiting for " \o W.waits[w].event))

(***************************************************************************)
(* Engine state                                                            *)
(***************************************************************************)
VARIABLES
  dom,                  \* the document: a sequence of elements
  elementCache,         \* marker id -> element
  selectorCounter,
  clickedElements,      \* set of selector strings
  inventory,            \* the features of the last inventory returned
  scans,                \* number of extractions run so far
  highlightedElements,  \* element -> the outline and box-shadow saved for it
  highlightOverlay,     \* the overlay node: [exists, display, nodes]
  highlightOverlayRAF,  \* handle of the animation frame requested last, or Null
  currentHighlightedEl, \* the element the overlay tracks, or Null
  frames,               \* handles of the pending animation-frame callbacks
  pointer,              \* the #bb-pointer node: [exists, opacity]
  timers,               \* pending setTimeout callbacks, in creation order
  lastFired,            \* the timer whose callback ran in the last step
  waits,                \* the promises waitForEvent created
  listeners,            \* the event listeners registered
  message,              \* the message received last
  response,             \* the response sent to it by its handler
  requests,             \* number of messages received
  events,               \* number of user events dispatched
  removals,             \* number of elements the page removed
  calls,                \* the executeAction calls made, with where each stands
  replies,              \* per message received: the sendResponse calls made for it
  effects,              \* what the engine did to the page: counts of extractions,
                        \* programmatic scrolls and clicks
  routes,               \* the background worker's ensureContentScript calls
  tab,                  \* the active tab: [scripts], the content scripts loaded in it
  relays                \* the messages the background listener received

extractVars == <<dom, elementCache, selectorCounter, clickedElements, inventory, scans>>
uiVars ==
  <<highlightedElements, highlightOverlay, highlightOverlayRAF, currentHighlightedEl,
    frames, pointer>>
waitVars == <<waits, listeners>>
envVars == <<message, response, requests, events, removals>>

actVars == <<calls, replies, effects>>

bgVars == <<routes, tab, relays>>

vars == <<extractVars, uiVars, timers, lastFired, waitVars, envVars, actVars, bgVars>>

Engine == [dom |-> dom, cache |-> elementCache, ctr |-> selectorCounter]

Ui ==
  [dom |-> dom, hl |-> highlightedElements, overlay |-> highlightOverlay,
   raf |-> highlightOverlayRAF, cur |-> currentHighlightedEl, frames |-> frames,
   pointer |-> pointer, timers |-> timers]

Waiter == [waits |-> waits, listeners |-> listeners]

\* One entry of replies: the message's type, the number of sendResponse calls
\* made for it so far, and the wait or executeAction call (0 for none) whose
\* promise the response hangs on.
Reply(type, n, wait, call) == [type |-> type, n |-> n, wait |-> wait, call |-> call]

\* .then((result) => sendResponse(result)) of the waits that settle between
\* ws and ws2
Answered(rp, ws, ws2) ==
  [r \in DOMAIN rp |->
     IF rp[r].wait \in DOMAIN ws /\ ~ws[rp[r].wait].done /\ ws2[rp[r].wait].done
       THEN [rp[r] EXCEPT !.n = @ + 1]
     ELSE rp[r]]

\* ... and of the executeAction call c, which has returned
Returns(rp, c) ==
  [r \in DOMAIN rp |-> IF rp[r].call = c THEN [rp[r] EXCEPT !.n = @ + 1] ELSE rp[r]]

(***************************************************************************)
(* Pages                                                                   *)
(***************************************************************************)
MaxElems == 2
MaxScans == 2
Over == 1

Palette ==
  << [Elem("a", "", "", <<>>, "/p1", "Shoe") EXCEPT !.anc = {"product"}],
     Elem("a", "", "", <<"x.y">>, "/about", "About"),
     Elem("a", "", "", <<"x", "y">>, "/cart", "Cart"),
     [Elem("a", "", "", <<>>, "/p1", "Shoe2") EXCEPT !.display = "none"],
     [Elem("a", "", "", <<"home">>, "/home", "Home") EXCEPT !.anc = {"nav"}],
     Elem("input", "", "q", <<>>, "", ""),
     [Elem("input", "", "tok", <<>>, "", "") EXCEPT !.type = "hidden"],
     Elem("button", "", "add", <<>>, "", "Add"),
     Elem("button", "go", "", <<"active">>, "", "Go"),
     [Elem("a", "buy", "", <<>>, "/p2", "Buy") EXCEPT !.role = "button"] >>

RECURSIVE PagesOfLen(_)
PagesOfLen(n) ==
  IF n = 0 THEN {<<>>}
  ELSE {Append(pg, Palette[k]) : pg \in PagesOfLen(n - 1), k \in 1..Len(Palette)}

SmallPages == UNION {PagesOfLen(n) : n \in 1..MaxElems}

\* n filler elements, each with a label (and href) of its own
FillerLinks(n, anc) ==
  [i \in 1..n |-> [Elem("a", "", "", <<>>, "/l" \o ToString(i), "Link " \o ToString(i))
                     EXCEPT !.anc = anc]]
FillerInputs(n) == [i \in 1..n |-> Elem("input", "", "f" \o ToString(i), <<>>, "", "")]
FillerButtons(n, classes) ==
  [i \in 1..n |-> Elem("button", "", "", classes, "", "Button " \o ToString(i))]

\* Pages around the three budgets.
BudgetPages ==
  {FillerLinks(nl, {}) \o FillerInputs(ni) \o FillerButtons(nb, <<>>) :
     nl \in {0, MaxLinks - 1, MaxLinks + Over},
     ni \in {0, MaxInputs - 1, MaxInputs + Over},
     nb \in {0, MaxButtons - 1, MaxButtons + Over}}

\* The pages of the spec's scenario: 5 non-product links of which the 2 in
\* navPick are inside nav, 3 product links, 10 inputs of which the 3 in
\* hiddenPick are hidden (by type or by display), 4 plain buttons and 2
\* add-to-cart buttons, all labels and hrefs distinct.
ScenarioPage(navPick, hiddenPick) ==
  [i \in 1..5 |-> [Elem("a", "", "", <<>>, "/o" \o ToString(i), "Other " \o ToString(i))
                     EXCEPT !.anc = IF i \in navPick THEN {"nav"} ELSE {}]]
  \o FillerLinks(3, {"product"})
  \o [i \in 1..10 |->
        [Elem("input", "", "field" \o ToString(i), <<>>, "", "")
           EXCEPT !.type = IF i \in hiddenPick /\ i % 2 = 1 THEN "hidden" ELSE "text",
                  !.display = IF i \in hiddenPick /\ i % 2 = 0 THEN "none" ELSE "block"]]
  \o FillerButtons(4, <<>>)
  \o [i \in 1..2 |-> Elem("button", "", "", <<"add-to-cart">>, "", "Add to cart " \o ToString(i))]

ScenarioPages ==
  {ScenarioPage(navPick, hiddenPick) :
     navPick \in {S \in SUBSET (1..5) : Cardinality(S) = 2},
     hiddenPick \in {S \in SUBSET (1..10) : Cardinality(S) = 3}}

\* Pages whose link texts and hrefs hold a colon.
ColonPages ==
  {<<Elem("a", "", "", <<>>, "tel:123", "Call"), Elem("a", "", "", <<>>, "123", "Call:tel")>>,
   <<Elem("a", "", "", <<>>, "mailto:a@b.example", "Mail: us"),
     Elem("a", "", "", <<>>, "/contact", "Mail: us")>>}

\* Pages on which a link that is hidden, or has no label, comes before a
\* visible, labelled link with the same href.
TwinPages ==
  {<<[Elem("a", "", "", <<>>, "/sale", "Sale") EXCEPT !.display = "none"],
     Elem("a", "", "", <<>>, "/sale", "Sale now")>>,
   <<Elem("a", "", "", <<>>, "/new", ""), Elem("a", "", "", <<>>, "/new", "New in")>>}

\* The page as the author wrote it: without the markers the engine stamps.
Pristine(d) == [i \in 1..Len(d) |-> [d[i] EXCEPT !.bbid = ""]]

\* The state of a freshly injected content script.
EngineLoaded ==
  /\ elementCache = EmptyMap
  /\ selectorCounter = 0
  /\ clickedElements = {}
  /\ inventory = <<>>
  /\ scans = 0
  /\ highlightedElements = EmptyMap
  /\ highlightOverlay = [exists |-> FALSE, display |-> "none", nodes |-> 0]
  /\ highlightOverlayRAF = Null
  /\ currentHighlightedEl = Null
  /\ frames = {}
  /\ pointer = [exists |-> FALSE, opacity |-> ""]
  /\ timers = <<>>
  /\ lastFired = NoTimer
  /\ waits = <<>>
  /\ listeners = {}
  /\ message = NoMessage
  /\ response = NoResponse
  /\ requests = 0
  /\ events = 0
  /\ removals = 0
  /\ calls = <<>>
  /\ replies = <<>>
  /\ effects = [extractions |-> 0, scrolls |-> 0, clicks |-> 0]

\* The content script runs in the tab and the background worker is idle.
Loaded ==
  /\ EngineLoaded
  /\ routes = <<>>
  /\ tab = [scripts |-> 1]
  /\ relays = <<>>

ExtractInit ==
  /\ dom \in SmallPages \cup BudgetPages \cup ScenarioPages \cup ColonPages \cup TwinPages
  /\ Loaded

\* The GET_FEATURES request.
GetFeatures ==
  /\ scans < MaxScans
  /\ \E r \in {extractPageFeatures(Engine, clickedElements)} :
        /\ inventory' = IF r.threw THEN inventory ELSE r.features
        /\ dom' = r.G.dom
        /\ elementCache' = r.G.cache
        /\ selectorCounter' = r.G.ctr
        /\ response' = IF r.threw THEN NoResponse
                       ELSE Success("Found " \o ToString(Len(r.features))
                                      \o " interactive elements")
        /\ replies' = Append(replies,
                             Reply("GET_FEATURES", IF r.threw THEN 0 ELSE 1, 0, 0))
  /\ message' = Message("GET_FEATURES", NoMessage.payload)
  /\ requests' = requests + 1
  /\ scans' = scans + 1
  /\ effects' = [effects EXCEPT !.extractions = @ + 1]
  /\ lastFired' = NoTimer
  /\ UNCHANGED <<clickedElements, uiVars, timers, waitVars, events, removals, calls>>
  /\ UNCHANGED bgVars

ExtractNext == GetFeatures

\* Extraction alone, scan after scan, over every page.
ExtractSpec == ExtractInit /\ [][ExtractNext]_vars

(***************************************************************************)
(* Highlighting: the HIGHLIGHT_ELEMENT and CLEAR_HIGHLIGHTS messages, the  *)
(* animation frames and timers they leave behind, and a page that removes  *)
(* elements.                                                               *)
(***************************************************************************)
MaxUiElems == 2
MaxRequests == 2
MaxEvents == 2
MaxRemovals == 1

\* Elements with inline outline and box-shadow declarations of their own.
UiPalette ==
  << [Elem("a", "", "", <<>>, "/p1", "Shoe") EXCEPT !.outline = Assigned("1px solid blue")],
     [Elem("button", "go", "", <<>>, "", "Go") EXCEPT !.boxShadow = Assigned("0 0 2px black")],
     [Elem("input", "", "q", <<>>, "", "") EXCEPT !.outline = Important("none")] >>

\* The pages of MaxUiElems consecutive palette elements (the palette taken
\* as a ring).
UiPages ==
  {[i \in 1..MaxUiElems |-> UiPalette[((k + i - 2) % Len(UiPalette)) + 1]] :
     k \in 1..Len(UiPalette)}

\* <<targetIndex, selector>> pairs: a selector that matches or not, an index
\* that is present or not, and neither.
Targets == ({Undefined} \X {"#go", "#nope"}) \cup ({Undefined, 0, 5} \X {""})

HighlightPayloads ==
  {Payload("", t[1], t[2], d, Undefined) : t \in Targets, d \in {Undefined, 0, 1000}}

SetUi(u) ==
  /\ dom' = u.dom
  /\ highlightedElements' = u.hl
  /\ highlightOverlay' = u.overlay
  /\ highlightOverlayRAF' = u.raf
  /\ currentHighlightedEl' = u.cur
  /\ frames' = u.frames
  /\ pointer' = u.pointer
  /\ timers' = u.timers

SetEngine(G) ==
  /\ dom' = G.dom
  /\ elementCache' = G.cache
  /\ selectorCounter' = G.ctr

\* getElementBySelector(resolvedSelector) after the "No selector" return
Element(rs) == IF rs.selector = "" THEN Null ELSE getElementBySelector(rs.G, rs.selector)

DurationOf(payload) ==
  IF payload.duration = Undefined THEN DefaultHighlightMs ELSE payload.duration

HighlightError(rs, payload) ==
  IF rs.threw THEN ThrownMessage
  ELSE IF rs.selector # "" THEN "Could not find element: " \o rs.selector
  ELSE IF rs.scanned
    THEN "Element with index " \o ToString(payload.targetIndex) \o " not found"
  ELSE "No selector/targetIndex provided"

Highlighted(rs, el) ==
  Success("Highlighted: " \o Or(Or(rs.labelText, el.ariaLabel), "element"))

\* The HIGHLIGHT_ELEMENT message: highlightElementByIndex(payload).
HighlightElement ==
  /\ requests < MaxRequests
  /\ \E p \in HighlightPayloads :
       /\ message' = Message("HIGHLIGHT_ELEMENT", p)
       /\ \E rs \in {Resolved(Engine, clickedElements, p)} :
            /\ effects' = [effects EXCEPT
                             !.extractions = IF rs.scanned THEN @ + 1 ELSE @,
                             !.scrolls = IF Element(rs) # Null THEN @ + 1 ELSE @]
            /\ elementCache' = rs.G.cache
            /\ selectorCounter' = rs.G.ctr
            /\ \E element \in {Element(rs)} :
                 IF element = Null
                   THEN /\ response' = Failure(HighlightError(rs, p))
                        /\ dom' = rs.G.dom
                        /\ UNCHANGED <<uiVars, timers>>
                 ELSE /\ response' = Highlighted(rs, rs.G.dom[element])
                      /\ \E u1 \in {clearAllHighlights([Ui EXCEPT !.dom = rs.G.dom])} :
                         \E u2 \in {startOverlayTracking(u1, element)} :
                         \E u3 \in {highlightElement(u2, element, DurationOf(p))} :
                         \E u4 \in {movePointerToElement(u3, element)} : SetUi(u4)
  /\ requests' = requests + 1
  /\ replies' = Append(replies, Reply("HIGHLIGHT_ELEMENT", 1, 0, 0))
  /\ lastFired' = NoTimer
  /\ UNCHANGED <<clickedElements, inventory, scans, waitVars, events, removals, calls>>
  /\ UNCHANGED bgVars

\* The CLEAR_HIGHLIGHTS message.
ClearHighlights ==
  /\ requests < MaxRequests
  /\ message' = Message("CLEAR_HIGHLIGHTS", NoMessage.payload)
  /\ response' = Success("")
  /\ \E u \in {clearAllHighlights(Ui)} : SetUi(u)
  /\ requests' = requests + 1
  /\ replies' = Append(replies, Reply("CLEAR_HIGHLIGHTS", 1, 0, 0))
  /\ lastFired' = NoTimer
  /\ UNCHANGED <<elementCache, selectorCounter, clickedElements, inventory, scans,
                 waitVars, events, removals, calls, effects>>
  /\ UNCHANGED bgVars

\* An animation frame: the pending tick callback runs.
Frame ==
  /\ \E h \in frames :
       \E u \in {tick([Ui EXCEPT !.frames = @ \ {h}])} : SetUi(u)
  /\ lastFired' = NoTimer
  /\ UNCHANGED <<elementCache, selectorCounter, clickedElements, inventory, scans,
                 waitVars, envVars, actVars>>
  /\ UNCHANGED bgVars

\* The page removes an element from the document.
RemoveElement ==
  /\ removals < MaxRemovals
  /\ \E e \in 1..Len(dom) :
       /\ dom[e].attached
       /\ dom' = [dom EXCEPT ![e].attached = FALSE]
  /\ removals' = removals + 1
  /\ lastFired' = NoTimer
  /\ UNCHANGED <<elementCache, selectorCounter, clickedElements, inventory, scans,
                 uiVars, timers, waitVars, message, response, requests, events,
                 actVars>>
  /\ UNCHANGED bgVars

\* Time passes until the next timer is due.
MinLeft(tm) ==
  CHOOSE m \in {tm[i].left : i \in DOMAIN tm} : \A i \in DOMAIN tm : m <= tm[i].left

Elapse(tm, dt) == [i \in DOMAIN tm |-> [tm[i] EXCEPT !.left = @ - dt]]
Aged(ws, dt) ==
  [w \in DOMAIN ws |-> IF ws[w].done THEN ws[w] ELSE [ws[w] EXCEPT !.age = @ + dt]]

\* Time passes for the ensureContentScript calls that wait after an injection.
AgedRoutes(rs, dt) ==
  [r \in DOMAIN rs |-> IF rs[r].stage = "waiting" THEN [rs[r] EXCEPT !.age = @ + dt] ELSE rs[r]]

Tick ==
  /\ timers # <<>>
  /\ \A i \in DOMAIN timers : timers[i].left > 0
  /\ \E dt \in {MinLeft(timers)} :
       /\ timers' = Elapse(timers, dt)
       /\ waits' = Aged(waits, dt)
  /\ lastFired' = NoTimer
  /\ routes' = AgedRoutes(routes, MinLeft(timers))
  /\ UNCHANGED <<extractVars, uiVars, listeners, envVars, actVars, tab, relays>>

\* Due timers run in the order they were set.
Due == {i \in DOMAIN timers : timers[i].left = 0}
FirstDue == CHOOSE i \in Due : \A j \in Due : i <= j
Remove(seq, i) == SubSeq(seq, 1, i - 1) \o SubSeq(seq, i + 1, Len(seq))

RestoreTimerFires ==
  /\ Due # {}
  /\ timers[FirstDue].kind = "restore"
  /\ \E u \in {restore([Ui EXCEPT !.timers = Remove(timers, FirstDue)],
                       timers[FirstDue].el)} : SetUi(u)
  /\ lastFired' = timers[FirstDue]
  /\ UNCHANGED <<elementCache, selectorCounter, clickedElements, inventory, scans,
                 waitVars, envVars, actVars>>
  /\ UNCHANGED bgVars

FadeTimerFires ==
  /\ Due # {}
  /\ timers[FirstDue].kind = "fade"
  /\ \E u \in {fade([Ui EXCEPT !.timers = Remove(timers, FirstDue)])} : SetUi(u)
  /\ lastFired' = timers[FirstDue]
  /\ UNCHANGED <<elementCache, selectorCounter, clickedElements, inventory, scans,
                 waitVars, envVars, actVars>>
  /\ UNCHANGED bgVars

HighlightInit ==
  /\ dom \in UiPages
  /\ Loaded

HighlightNext ==
  \/ HighlightElement
  \/ ClearHighlights
  \/ Frame
  \/ RemoveElement
  \/ Tick
  \/ RestoreTimerFires
  \/ FadeTimerFires

\* Highlight and clear requests against animation frames, timers and a page
\* that removes elements.
HighlightSpec == HighlightInit /\ [][HighlightNext]_vars

(***************************************************************************)
(* Waiting: the WAIT_FOR_EVENT message, the user's clicks, edits and       *)
(* scrolls, and the timeouts.                                              *)
(***************************************************************************)
WaitPayloads ==
  {Payload(ev, t[1], t[2], Undefined, ms) :
     ev \in {"click", "input", "scroll", "hover"}, t \in Targets, ms \in {Undefined, 1000}}

TimeoutOf(payload) ==
  IF payload.timeoutMs = Undefined THEN DefaultWaitTimeoutMs ELSE payload.timeoutMs

WaitError(rs) ==
  IF rs.threw THEN ThrownMessage
  ELSE IF rs.selector = "" THEN "No selector/targetIndex provided"
  ELSE "Could not find element: " \o rs.selector

ListenedTypes(event) ==
  IF event = "click" THEN {"click"}
  ELSE IF event = "input" THEN {"input", "change"}
  ELSE {}

\* The promise executor of the click/input branch, for the new wait w.
Listen(event, element, timeoutMs, w) ==
  IF ListenedTypes(event) # {}
    THEN /\ waits' = Append(waits, Wait(event, element, timeoutMs))
         /\ listeners' = listeners \cup {Listener(element, t, w) : t \in ListenedTypes(event)}
         /\ timers' = Append(timers, Timer("wait", timeoutMs, Null, w))
  ELSE /\ \E W \in {finish([waits |-> Append(waits, Wait(event, element, timeoutMs)),
                            listeners |-> listeners],
                           w, Failure("Unknown event: " \o event))} :
            /\ waits' = W.waits
            /\ listeners' = W.listeners
       /\ UNCHANGED timers

\* The scroll branch, for the new wait w.
ListenForScroll(timeoutMs, w) ==
  /\ waits' = Append(waits, Wait("scroll", Window, timeoutMs))
  /\ listeners' = listeners \cup {Listener(Window, "scroll", w)}
  /\ timers' = Append(timers, Timer("wait", timeoutMs, Null, w))

\* The WAIT_FOR_EVENT message: waitForEvent(payload).  The response is sent
\* when the promise settles.
WaitForEvent ==
  /\ requests < MaxRequests
  /\ \E p \in WaitPayloads :
       /\ message' = Message("WAIT_FOR_EVENT", p)
       /\ IF p.event = "scroll"
            THEN /\ ListenForScroll(TimeoutOf(p), Len(waits) + 1)
                 /\ response' = NoResponse
                 /\ replies' = Append(replies, Reply("WAIT_FOR_EVENT", 0, Len(waits) + 1, 0))
                 /\ UNCHANGED effects
                 /\ UNCHANGED <<dom, elementCache, selectorCounter>>
          ELSE \E rs \in {Resolved(Engine, clickedElements, p)} :
                 /\ SetEngine(rs.G)
                 /\ effects' = [effects EXCEPT
                                  !.extractions = IF rs.scanned THEN @ + 1 ELSE @]
                 /\ \E element \in {Element(rs)} :
                      IF element = Null
                        THEN /\ response' = Failure(WaitError(rs))
                             /\ replies' = Append(replies, Reply("WAIT_FOR_EVENT", 1, 0, 0))
                             /\ UNCHANGED <<waits, listeners, timers>>
                      ELSE /\ response' = NoResponse
                           /\ replies' =
                                Append(replies,
                                       Reply("WAIT_FOR_EVENT",
                                             IF ListenedTypes(p.event) = {} THEN 1 ELSE 0,
                                             Len(waits) + 1, 0))
                           /\ Listen(p.event, element, TimeoutOf(p), Len(waits) + 1)
  /\ requests' = requests + 1
  /\ lastFired' = NoTimer
  /\ UNCHANGED <<clickedElements, inventory, scans, uiVars, events, removals, calls>>
  /\ UNCHANGED bgVars

\* The handlers of the listeners of the waits in ws run, lowest wait first.
Lowest(ws) == CHOOSE w \in ws : \A v \in ws : w <= v

RECURSIVE Dispatch(_, _, _)
Dispatch(W, ws, type) ==
  IF ws = {} THEN W
  ELSE Dispatch(finish(W, Lowest(ws), Detected(type)), ws \ {Lowest(ws)}, type)

RECURSIVE DispatchScroll(_, _)
DispatchScroll(W, ws) ==
  IF ws = {} THEN W
  ELSE DispatchScroll(onScroll(W, Lowest(ws)), ws \ {Lowest(ws)})

Listening(target, type) == {l.wait : l \in {x \in listeners : x.target = target /\ x.type = type}}

\* The user clicks an element of the page, or edits it.
UserEvent ==
  /\ events < MaxEvents
  /\ \E e \in 1..Len(dom), type \in {"click", "input", "change"} :
       /\ dom[e].attached
       /\ \E W \in {Dispatch(Waiter, Listening(e, type), type)} :
            /\ waits' = W.waits
            /\ listeners' = W.listeners
            /\ replies' = Answered(replies, waits, W.waits)
  /\ events' = events + 1
  /\ lastFired' = NoTimer
  /\ UNCHANGED <<extractVars, uiVars, timers, message, response, requests, removals,
                 calls, effects>>
  /\ UNCHANGED bgVars

\* Something on the page scrolls.
UserScroll ==
  /\ events < MaxEvents
  /\ \E W \in {DispatchScroll(Waiter, Listening(Window, "scroll"))} :
       /\ waits' = W.waits
       /\ listeners' = W.listeners
       /\ replies' = Answered(replies, waits, W.waits)
  /\ events' = events + 1
  /\ lastFired' = NoTimer
  /\ UNCHANGED <<extractVars, uiVars, timers, message, response, requests, removals,
                 calls, effects>>
  /\ UNCHANGED bgVars

WaitTimerFires ==
  /\ Due # {}
  /\ timers[FirstDue].kind = "wait"
  /\ \E W \in {timeout(Waiter, timers[FirstDue].wait)} :
       /\ waits' = W.waits
       /\ listeners' = W.listeners
       /\ replies' = Answered(replies, waits, W.waits)
  /\ timers' = Remove(timers, FirstDue)
  /\ lastFired' = timers[FirstDue]
  /\ UNCHANGED <<extractVars, uiVars, envVars, calls, effects>>
  /\ UNCHANGED bgVars

WaitInit ==
  /\ dom \in UiPages
  /\ Loaded

WaitNext ==
  \/ WaitForEvent
  \/ UserEvent
  \/ UserScroll
  \/ Tick
  \/ WaitTimerFires

\* Wait requests against user events and timeouts.
WaitSpec == WaitInit /\ [][WaitNext]_vars

(***************************************************************************)
(* Acting: the EXECUTE_ACTION message.  executeAction is a coroutine: a    *)
(* call is [req, payload, stage, el, text, result, before], where stage    *)
(* names the await it stands at ("waiting": the 1000 ms of WAIT;           *)
(* "highlighted": the 500 ms after the highlight; "pointing": the 800 ms   *)
(* before the click; "returned"), el and text are the element and the      *)
(* feature text it resolved, and before is bookkeeping for the properties: *)
(* the document, highlight records and counts of effects at the call.      *)
(***************************************************************************)
WaitMs == 1000
ActionHighlightMs == 5000
SettleMs == 500
PointerMs == 800

Call(req, payload, stage, el, text, result) ==
  [req |-> req, payload |-> payload, stage |-> stage, el |-> el, text |-> text,
   result |-> result, steps |-> <<>>,
   before |-> [dom |-> dom, hl |-> highlightedElements, effects |-> effects]]

\* The call has gone through one more of its steps on the page.
Did(call, step) == [call EXCEPT !.steps = Append(@, step)]

ActionPayloads ==
  {ActionPayload(a, i, "") : a \in {"CLICK", "TYPE", "SCROLL", "WAIT", "HOVER"},
                             i \in {NoIndex, Undefined, 0, 1, 5}}
    \cup {ActionPayload("TYPE", i, "hi") : i \in {0, 1}}

\* Pages with a selector of each form, and one whose input has an id that
\* holds a double quote.
ActionPages ==
  UiPages
    \cup {<<Elem("a", "", "", <<"promo">>, "/sale", "Sale"),
            Elem("button", "", "add", <<>>, "", "Add")>>,
          <<Elem("input", "a\"b", "", <<>>, "", "")>>}

\* The return statements before the first await that follows the lookup:
\* the response, for the inventory r and the features hits found in it.
ActionError(r, hits, payload) ==
  IF r.threw THEN Failure(ThrownMessage)
  ELSE IF Len(hits) = 0
    THEN Failure("Element with index " \o IndexText(payload.targetIndex) \o " not found")
  ELSE Failure("Could not find element: " \o hits[1].selector)

\* The element the lookup ends with, or Null
ActionElement(r, hits) ==
  IF r.threw \/ Len(hits) = 0 THEN Null ELSE getElementBySelector(r.G, hits[1].selector)

\* const { features } = extractPageFeatures(): the inventory the lookup
\* searches, r the result of the extraction made in the call.
EarlierFeatures(r) == inventory
Features(r) == r.features

\* executeAction from the lookup to the await of 500 ms, for the new call c
Lookup(p, c) ==
  \E r \in {extractPageFeatures(Engine, clickedElements)} :
  \E hits \in {SelectSeq(Features(r), LAMBDA f : f.index = p.targetIndex)} :
  \E element \in {ActionElement(r, hits)} :
    /\ elementCache' = r.G.cache
    /\ selectorCounter' = r.G.ctr
    /\ IF element = Null
         THEN /\ response' = ActionError(r, hits, p)
              /\ replies' = Append(replies, Reply("EXECUTE_ACTION", 1, 0, 0))
              /\ effects' = [effects EXCEPT !.extractions = @ + 1]
              /\ dom' = r.G.dom
              /\ UNCHANGED <<uiVars, timers, calls>>
       ELSE /\ response' = NoResponse
            /\ replies' = Append(replies, Reply("EXECUTE_ACTION", 0, 0, c))
            /\ effects' = [effects EXCEPT !.extractions = @ + 1, !.scrolls = @ + 1]
            /\ calls' = Append(calls,
                               Did(Did(Did(Call(requests + 1, p, "highlighted", element,
                                                hits[1].text, NoResponse),
                                           "clear"), "scroll"), "highlight"))
            /\ \E u1 \in {clearAllHighlights([Ui EXCEPT !.dom = r.G.dom])} :
               \E u2 \in {highlightElement(u1, element, ActionHighlightMs)} :
                 SetUi([u2 EXCEPT !.timers = Append(@, Timer("resume", SettleMs, element, c))])

\* The EXECUTE_ACTION message: executeAction(payload) up to its first await
\* or return.
ExecuteAction ==
  /\ requests < MaxRequests
  /\ \E p \in ActionPayloads :
       /\ message' = Message("EXECUTE_ACTION", p)
       /\ IF p.action = "SCROLL"
            THEN /\ response' = Success("Scrolled down")
                 /\ replies' = Append(replies, Reply("EXECUTE_ACTION", 1, 0, 0))
                 /\ effects' = [effects EXCEPT !.scrolls = @ + 1]
                 /\ UNCHANGED <<dom, elementCache, selectorCounter, uiVars, timers, calls>>
          ELSE IF p.action = "WAIT"
            THEN /\ response' = NoResponse
                 /\ replies' = Append(replies, Reply("EXECUTE_ACTION", 0, 0, Len(calls) + 1))
                 /\ calls' = Append(calls, Call(requests + 1, p, "waiting", Null, "",
                                                NoResponse))
                 /\ timers' = Append(timers, Timer("resume", WaitMs, Null, Len(calls) + 1))
                 /\ UNCHANGED <<dom, elementCache, selectorCounter, uiVars, effects>>
          ELSE IF p.targetIndex = NoIndex
            THEN /\ response' = Failure("No target element specified")
                 /\ replies' = Append(replies, Reply("EXECUTE_ACTION", 1, 0, 0))
                 /\ UNCHANGED <<dom, elementCache, selectorCounter, uiVars, timers, calls,
                                effects>>
          ELSE Lookup(p, Len(calls) + 1)
  /\ requests' = requests + 1
  /\ lastFired' = NoTimer
  /\ UNCHANGED <<clickedElements, inventory, scans, waitVars, events, removals>>
  /\ UNCHANGED bgVars

\* markElementAsClicked(element), g the result of generateSelector
OnlyLast(clicked, g) == {g.sel}
Marked(clicked, g) == clicked \cup {g.sel}

\* What the call returns after the 500 ms when it is not a CLICK.
Typed(call) ==
  IF call.payload.action # "TYPE" THEN Failure("Unknown action: " \o call.payload.action)
  ELSE IF call.payload.textInput = "" THEN Failure("No text to type")
  ELSE Success("Typed \"" \o call.payload.textInput \o "\" into " \o call.text)

Finished(cs, c, result) == [cs EXCEPT ![c].stage = "returned", ![c].result = result]

\* executeAction resumes: the timer of one of its awaits is due.
Resume ==
  /\ Due # {}
  /\ timers[FirstDue].kind = "resume"
  /\ lastFired' = timers[FirstDue]
  /\ \E c \in {timers[FirstDue].wait} : \E rest \in {Remove(timers, FirstDue)} :
       CASE calls[c].stage = "waiting" ->
              /\ calls' = Finished([calls EXCEPT ![c] = Did(@, "pause")],
                                    c, Success("Waited 1 second"))
              /\ replies' = Returns(replies, c)
              /\ timers' = rest
              /\ UNCHANGED <<extractVars, uiVars, waitVars, effects>>
         [] calls[c].stage = "highlighted" /\ calls[c].payload.action = "CLICK" ->
              /\ calls' = [calls EXCEPT ![c] = Did(Did([@ EXCEPT !.stage = "pointing"],
                                                       "pause"), "pointer")]
              /\ \E u \in {movePointerToElement([Ui EXCEPT !.timers = rest], calls[c].el)} :
                   SetUi([u EXCEPT !.timers = Append(@, Timer("resume", PointerMs,
                                                               calls[c].el, c))])
              /\ UNCHANGED <<elementCache, selectorCounter, clickedElements, inventory,
                             scans, waitVars, replies, effects>>
         [] calls[c].stage = "highlighted" /\ calls[c].payload.action # "CLICK" ->
              /\ calls' = Finished([calls EXCEPT
                                       ![c] = IF Typed(@).success THEN Did(Did(@, "pause"), "type")
                                              ELSE Did(@, "pause")],
                                    c, Typed(calls[c]))
              /\ replies' = Returns(replies, c)
              /\ timers' = rest
              /\ IF Typed(calls[c]).success
                   THEN /\ dom' = [dom EXCEPT ![calls[c].el].value = calls[c].payload.textInput]
                        /\ \E W1 \in {Dispatch(Waiter, Listening(calls[c].el, "input"), "input")} :
                           \E W2 \in {Dispatch(W1, {l.wait : l \in {x \in W1.listeners :
                                                      x.target = calls[c].el /\ x.type = "change"}},
                                               "change")} :
                             /\ waits' = W2.waits
                             /\ listeners' = W2.listeners
                 ELSE UNCHANGED <<dom, waitVars>>
              /\ UNCHANGED <<elementCache, selectorCounter, clickedElements, inventory,
                             scans, uiVars, effects>>
         [] calls[c].stage = "pointing" ->
              /\ calls' = Finished([calls EXCEPT ![c] = Did(Did(@, "pause"), "click")],
                                    c, Success("Clicked: " \o calls[c].text))
              /\ replies' = Returns(replies, c)
              /\ timers' = rest
              /\ effects' = [effects EXCEPT !.clicks = @ + 1]
              /\ \E W \in {Dispatch(Waiter, Listening(calls[c].el, "click"), "click")} :
                   /\ waits' = W.waits
                   /\ listeners' = W.listeners
              /\ \E g \in {generateSelector(Engine, calls[c].el)} :
                   /\ clickedElements' = Marked(clickedElements, g)
                   /\ SetEngine(g.G)
              /\ UNCHANGED <<inventory, scans, uiVars>>
  /\ UNCHANGED envVars
  /\ UNCHANGED bgVars

\* The PING message.
PingHandler ==
  /\ message' = Message("PING", NoMessage.payload)
  /\ response' = Success("")
  /\ replies' = Append(replies, Reply("PING", 1, 0, 0))
  /\ requests' = requests + 1
  /\ lastFired' = NoTimer
  /\ UNCHANGED <<extractVars, uiVars, timers, waitVars, events, removals, calls, effects>>

Ping ==
  /\ requests < MaxRequests
  /\ PingHandler
  /\ UNCHANGED bgVars

ActionInit ==
  /\ dom \in ActionPages
  /\ Loaded

ActionNext ==
  \/ ExecuteAction
  \/ Resume
  \/ GetFeatures
  \/ Ping
  \/ RemoveElement
  \/ Tick
  \/ RestoreTimerFires
  \/ FadeTimerFires

\* Action, inventory and ping requests against timers and a page that
\* removes elements.
ActionSpec == ActionInit /\ [][ActionNext]_vars

(***************************************************************************)
(* Overlay tracking: startOverlayTracking and stopOverlayTracking called   *)
(* in any order, on their own and by the highlight and clear handlers,     *)
(* against animation frames, timers and a page that removes elements.      *)
(***************************************************************************)
StartTracking ==
  /\ \E e \in 1..Len(dom) : \E u \in {startOverlayTracking(Ui, e)} : SetUi(u)
  /\ lastFired' = NoTimer
  /\ UNCHANGED <<elementCache, selectorCounter, clickedElements, inventory, scans,
                 waitVars, envVars, actVars>>
  /\ UNCHANGED bgVars

StopTracking ==
  /\ \E u \in {stopOverlayTracking(Ui)} : SetUi(u)
  /\ lastFired' = NoTimer
  /\ UNCHANGED <<elementCache, selectorCounter, clickedElements, inventory, scans,
                 waitVars, envVars, actVars>>
  /\ UNCHANGED bgVars

OverlayInit ==
  /\ dom \in ActionPages
  /\ Loaded

OverlayNext ==
  \/ StartTracking
  \/ StopTracking
  \/ HighlightElement
  \/ ClearHighlights
  \/ Frame
  \/ RemoveElement
  \/ Tick
  \/ RestoreTimerFires
  \/ FadeTimerFires

OverlaySpec == OverlayInit /\ [][OverlayNext]_vars

(***************************************************************************)
(* A page that changes under the engine: besides removing elements, its    *)
(* script gives an id to an element that has none, and copies elements.    *)
(***************************************************************************)
PageIds == {"go", "x"}

\* The page sets the id attribute of an element without one.
AssignId ==
  /\ \E e \in 1..Len(dom), v \in PageIds :
       /\ dom[e].attached
       /\ dom[e].id = ""
       /\ dom' = [dom EXCEPT ![e].id = v]
  /\ lastFired' = NoTimer
  /\ UNCHANGED <<elementCache, selectorCounter, clickedElements, inventory, scans,
                 uiVars, timers, waitVars, envVars, actVars>>
  /\ UNCHANGED bgVars

MaxNodes == 3

\* The page appends a copy of an element, made with cloneNode, to the body:
\* the copy has the attributes of the original, data-bb-id included.
CloneElement ==
  /\ Len(dom) < MaxNodes
  /\ \E e \in 1..Len(dom) : dom' = Append(dom, [dom[e] EXCEPT !.attached = TRUE])
  /\ lastFired' = NoTimer
  /\ UNCHANGED <<elementCache, selectorCounter, clickedElements, inventory, scans,
                 uiVars, timers, waitVars, envVars, actVars>>
  /\ UNCHANGED bgVars

MutationInit ==
  /\ dom \in ActionPages
  /\ Loaded

MutationNext ==
  \/ GetFeatures
  \/ RemoveElement
  \/ AssignId
  \/ CloneElement

\* Inventories of a page that removes and copies elements and assigns ids.
MutationSpec == MutationInit /\ [][MutationNext]_vars

(***************************************************************************)
(* The background service worker (src/src/background/background.ts):       *)
(* ensureContentScript.  A call is a record [url, files, stage, seen,      *)
(* pings, injects, raised, age, result]: the tab URL and the number of     *)
(* content-script files the manifest names, the await the call stands at   *)
(* ("pinging", "injecting", "waiting", "returned"), and bookkeeping for the *)
(* properties: the number of content scripts the tab held when the PING    *)
(* was delivered (Undefined before), the PINGs sent and executeScript      *)
(* calls made, whether executeScript raised, the time waited after the     *)
(* injection.                                                              *)
(***************************************************************************)
UpperChars == "ABCDEFGHIJKLMNOPQRSTUVWXYZ"
LowerChars == "abcdefghijklmnopqrstuvwxyz"

LowerChar(c) ==
  IF CharIn(c, UpperChars) THEN CharAt(LowerChars, IndexFrom(UpperChars, c, 1)) ELSE c

RECURSIVE toLowerCase(_)
toLowerCase(s) ==
  IF s = "" THEN "" ELSE LowerChar(CharAt(s, 1)) \o toLowerCase(SubSeq(s, 2, Len(s)))

InternalPage ==
  "Browser internal pages do not allow extension injection. Open a normal website tab instead."
StorePage == "Chrome Web Store pages do not allow extension injection."
ExtensionPage == "Extension pages do not allow injection into themselves."
FilePage ==
  "File pages require enabling \"Allow access to file URLs\" in the extension settings."

\* getInjectionBlockReason(url): the reason, "" for null.  An undefined url
\* is "".
getInjectionBlockReason(url) ==
  LET u == toLowerCase(url)
  IN IF url = "" THEN "No tab URL available"
     ELSE IF \E p \in {"chrome://", "edge://", "about:"} : StartsWith(u, p) THEN InternalPage
     ELSE IF \E p \in {"https://chrome.google.com/webstore",
                       "https://chromewebstore.google.com/"} : StartsWith(u, p)
       THEN StorePage
     ELSE IF StartsWith(u, "chrome-extension://") THEN ExtensionPage
     ELSE IF StartsWith(u, "file://") THEN FilePage
     ELSE ""

Ok == [ok |-> TRUE, error |-> "", returned |-> TRUE]
Err(error) == [ok |-> FALSE, error |-> error, returned |-> TRUE]
NotReturned == [ok |-> FALSE, error |-> "", returned |-> FALSE]

Route(url, files, stage, pings, result) ==
  [url |-> url, files |-> files, stage |-> stage, seen |-> Undefined, pings |-> pings,
   injects |-> 0, raised |-> FALSE, age |-> 0, result |-> result]

InjectWaitMs == 100
InjectError == "Cannot access contents of the page"

MaxRoutes == 2

TabUrls == {"", "https://shop.example/", "Chrome://settings", "file:///home/a.html"}

\* The call ensureContentScript(tabId, url) at its first await or return.
Started(url, files) ==
  IF getInjectionBlockReason(url) # ""
    THEN Route(url, files, "returned", 0, Err(getInjectionBlockReason(url)))
  ELSE Route(url, files, "pinging", 1, NotReturned)

\* ensureContentScript(tabId, tabUrl) up to its first await or return.
EnsureContentScript ==
  /\ Len(routes) < MaxRoutes
  /\ \E url \in TabUrls, files \in {0, 1} :
       routes' = Append(routes, Started(url, files))
  /\ lastFired' = NoTimer
  /\ UNCHANGED <<extractVars, uiVars, timers, waitVars, envVars, actVars, tab, relays>>

\* A listener of the tab answers the PING.
NeverAnswers(t) == FALSE
Answers(t) == t.scripts > 0

\* chrome.tabs.sendMessage(tabId, {type: 'PING'}) settles for call r: a
\* content script of the tab answers, or the promise rejects and the catch
\* block runs up to its return or to the await of executeScript.
PingSettles ==
  \E r \in DOMAIN routes :
    /\ routes[r].stage = "pinging"
    /\ IF Answers(tab)
         THEN /\ PingHandler
              /\ routes' = [routes EXCEPT ![r].seen = tab.scripts,
                                          ![r].stage = "returned",
                                          ![r].result = Ok]
       ELSE /\ routes' =
                 [routes EXCEPT
                    ![r].seen = tab.scripts,
                    ![r].stage = IF routes[r].files = 0 THEN "returned" ELSE "injecting",
                    ![r].injects = IF routes[r].files = 0 THEN @ ELSE @ + 1,
                    ![r].result =
                      IF routes[r].files = 0
                        THEN Err("Extension manifest has no content_scripts entry to inject.")
                      ELSE @]
            /\ lastFired' = NoTimer
            /\ UNCHANGED <<extractVars, uiVars, timers, waitVars, envVars, actVars>>
    /\ UNCHANGED <<tab, relays>>

\* The content-script listeners of a tab after the files have been executed
\* in it: one more, or, in a tab that has one already, as many as before
\* when the build loads the code as a module that is evaluated once.
Executed(t) == IF t.scripts = 0 THEN {1} ELSE {t.scripts, t.scripts + 1}

\* chrome.scripting.executeScript settles for call r: it raises, or the
\* content script is loaded into the tab and the call waits 100 ms.
InjectionSettles ==
  /\ \E r \in DOMAIN routes, raises \in BOOLEAN :
       /\ routes[r].stage = "injecting"
       /\ IF raises
            THEN /\ routes' = [routes EXCEPT
                                 ![r].raised = TRUE,
                                 ![r].stage = "returned",
                                 ![r].result = Err("Failed to inject content script: "
                                                     \o InjectError)]
                 /\ UNCHANGED <<tab, timers>>
          ELSE /\ routes' = [routes EXCEPT ![r].stage = "waiting"]
               /\ \E n \in Executed(tab) : tab' = [tab EXCEPT !.scripts = n]
               /\ timers' = Append(timers, Timer("injected", InjectWaitMs, Null, r))
  /\ lastFired' = NoTimer
  /\ UNCHANGED <<extractVars, uiVars, waitVars, envVars, actVars, relays>>

\* The 100 ms after an injection are over: the call returns.
InjectTimerFires ==
  /\ Due # {}
  /\ timers[FirstDue].kind = "injected"
  /\ routes' = [routes EXCEPT ![timers[FirstDue].wait].stage = "returned",
                              ![timers[FirstDue].wait].result = Ok]
  /\ timers' = Remove(timers, FirstDue)
  /\ lastFired' = timers[FirstDue]
  /\ UNCHANGED <<extractVars, uiVars, waitVars, envVars, actVars, tab, relays>>

(***************************************************************************)
(* The chrome.runtime.onMessage listener of the background worker.  A      *)
(* relay is one message received: [type, target, stage, route, answers,    *)
(* reply, sent], where stage is "ignored" (not routed), "querying"         *)
(* (chrome.tabs.query pending), "ensuring" (awaiting ensureContentScript,  *)
(* call number route), "forwarded" (chrome.tabs.sendMessage pending) or    *)
(* "done"; answers is the number of content-script listeners in the tab    *)
(* when the forwarded message was delivered, reply is what the callback of *)
(* chrome.tabs.sendMessage received, and sent is the sequence of arguments *)
(* sendResponse was called with.                                           *)
(***************************************************************************)
contentMessageTypes ==
  {"USER_PROMPT", "GET_FEATURES", "EXECUTE_ACTION", "WAIT_FOR_EVENT", "HIGHLIGHT_ELEMENT",
   "CLEAR_HIGHLIGHTS"}

IsRouted(type, target) == type \in contentMessageTypes /\ target = "content"

\* A response object: {success, error?, ...payload}.
Answer(success, error, payload) == [success |-> success, error |-> error, payload |-> payload]
BgError(error) == Answer(FALSE, error, "")

NoReply == [lastError |-> "", response |-> Answer(FALSE, "", ""), called |-> FALSE]
Reported(lastError) == [NoReply EXCEPT !.lastError = lastError, !.called = TRUE]
Responded(r) == [NoReply EXCEPT !.response = r, !.called = TRUE]

Relay(type, target) ==
  [type |-> type, target |-> target,
   stage |-> IF IsRouted(type, target) THEN "querying" ELSE "ignored",
   route |-> Null, answers |-> Undefined, reply |-> NoReply, sent |-> <<>>]

Answering(relay, r) == [relay EXCEPT !.sent = Append(@, r)]

\* sendResponse(r) followed by the end of the callback.
Responding(relay, r) == [relay EXCEPT !.sent = Append(@, r), !.stage = "done"]

MaxRelays == 2

\* The message types and targets the side panel and other senders use.
SentTypes == {"GET_FEATURES", "PING"}
SentTargets == {"content", "background"}

\* The listener runs for a message: it calls chrome.tabs.query for a routed
\* message, and returns true.
OnMessage ==
  /\ Len(relays) < MaxRelays
  /\ \E type \in SentTypes, target \in SentTargets :
       relays' = Append(relays, Relay(type, target))
  /\ lastFired' = NoTimer
  /\ UNCHANGED <<extractVars, uiVars, timers, waitVars, envVars, actVars, routes, tab>>

\* The URLs of the active tab, and the number of files the manifest names
\* under content_scripts[0].js.
ActiveUrls == {"https://shop.example/", "Chrome://settings"}
ManifestFiles == 1

\* The callback of chrome.tabs.query runs up to its return or to the await
\* of ensureContentScript.
TabsQueried ==
  /\ \E i \in DOMAIN relays, active \in BOOLEAN :
       /\ relays[i].stage = "querying"
       /\ IF ~active
            THEN /\ relays' = [relays EXCEPT
                                 ![i] = Responding(@, BgError("No active tab found"))]
                 /\ UNCHANGED routes
          ELSE /\ Len(routes) < MaxRoutes
               /\ \E url \in ActiveUrls :
                    routes' = Append(routes, Started(url, ManifestFiles))
               /\ relays' = [relays EXCEPT ![i].stage = "ensuring",
                                           ![i].route = Len(routes) + 1]
  /\ lastFired' = NoTimer
  /\ UNCHANGED <<extractVars, uiVars, timers, waitVars, envVars, actVars, tab>>

DefaultInjectError == "Could not inject content script. Try refreshing the page."

\* ensureContentScript has returned: the callback answers with the error or
\* calls chrome.tabs.sendMessage(activeTab.id, message, ...).
EnsureReturned ==
  /\ \E i \in DOMAIN relays :
       /\ relays[i].stage = "ensuring"
       /\ routes[relays[i].route].stage = "returned"
       /\ \E injected \in {routes[relays[i].route].result} :
            relays' =
              [relays EXCEPT
                 ![i] = IF ~injected.ok
                          THEN Responding(@, BgError(IF injected.error # ""
                                                       THEN injected.error
                                                     ELSE DefaultInjectError))
                        ELSE [@ EXCEPT !.stage = "forwarded"]]
  /\ lastFired' = NoTimer
  /\ UNCHANGED <<extractVars, uiVars, timers, waitVars, envVars, actVars, routes, tab>>

NoReceiver == "Could not establish connection. Receiving end does not exist."
PortClosed == "The message port closed before a response was received."

\* What content-script listeners answer to a forwarded message.
ContentReplies ==
  {Answer(TRUE, "", "features"), Answer(FALSE, "Element with index 5 not found", "")}

\* What the callback of chrome.tabs.sendMessage can receive from a tab: the
\* response of a listener, or lastError when no listener answers.
Deliveries(t) ==
  IF t.scripts = 0 THEN {Reported(NoReceiver)}
  ELSE {Reported(PortClosed)} \cup {Responded(r) : r \in ContentReplies}

\* The callback of chrome.tabs.sendMessage runs.
ContentSettles ==
  /\ \E i \in DOMAIN relays :
       /\ relays[i].stage = "forwarded"
       /\ \E d \in Deliveries(tab) :
            relays' =
              [relays EXCEPT
                 ![i] = Responding([@ EXCEPT !.reply = d, !.answers = tab.scripts],
                                   IF d.lastError # "" THEN BgError(d.lastError)
                                   ELSE d.response)]
  /\ lastFired' = NoTimer
  /\ UNCHANGED <<extractVars, uiVars, timers, waitVars, envVars, actVars, routes, tab>>

BackgroundInit ==
  /\ dom = UiPalette
  /\ EngineLoaded
  /\ routes = <<>>
  /\ tab \in {[scripts |-> 0], [scripts |-> 1]}
  /\ relays = <<>>

BackgroundNext ==
  \/ EnsureContentScript
  \/ PingSettles
  \/ InjectionSettles
  \/ InjectTimerFires
  \/ Tick
  \/ OnMessage
  \/ TabsQueried
  \/ EnsureReturned
  \/ ContentSettles

\* Calls of ensureContentScript against a tab with or without the content
\* script.
BackgroundSpec == BackgroundInit /\ [][BackgroundNext]_vars

\* The browser runs every callback and settles every promise that is due.
BackgroundLiveSpec == BackgroundSpec /\ WF_vars(BackgroundNext)

(***************************************************************************)
(* Properties of the feature extractor (checked under ExtractSpec)         *)
(***************************************************************************)
CountType(feats, type) == Len(SelectSeq(feats, LAMBDA f : f.type = type))

Link(i) == inventory[i].type = "link"
Button(i) == inventory[i].type = "button"
From(i) == dom[inventory[i].el]

C2_NoDuplicateTriples ==
  \A i, j \in 1..Len(inventory) :
    i < j => <<inventory[i].type, inventory[i].text, inventory[i].href>>
               # <<inventory[j].type, inventory[j].text, inventory[j].href>>

\* Two visible inputs with the same label, of which the inventory keeps one.
C2_Witness ==
  /\ scans > 0
  /\ \E a, b \in 1..Len(dom) :
       /\ a < b /\ IsInput(dom[a]) /\ IsInput(dom[b])
       /\ isVisible(dom[a]) /\ isVisible(dom[b])
       /\ dom[a].name = dom[b].name
  /\ CountType(inventory, "input") = 1

\* C3: the feature at list position i (from zero) has index i, so the
\* indices of an inventory of n features are exactly 0..n-1.
C3_IndexDensity ==
  \A i \in 1..Len(inventory) : inventory[i].index = i - 1

IsMarker(selector) == StartsWith(selector, BbOpen)

\* A button that is an action button and a plain button was processed twice
\* (two markers made in the one scan, one feature kept) and the plain
\* button numbered after its second feature has index 1.
C3_Witness ==
  /\ scans = 1
  /\ Len(inventory) = 2
  /\ Button(1) /\ Button(2)
  /\ IsActionButton(From(1)) /\ IsOtherButton(From(1)) /\ ~IsActionButton(From(2))
  /\ inventory[1].el < inventory[2].el
  /\ selectorCounter > Len(SelectSeq(inventory, LAMBDA f : IsMarker(f.selector)))
  /\ inventory[2].index = 1

\* C4: right after an extraction, every feature's selector resolves through
\* getElementBySelector to the element the feature was built from.
C4_SelectorRoundTrip ==
  \A i \in 1..Len(inventory) :
    getElementBySelector(Engine, inventory[i].selector) = inventory[i].el

\* C5: among the link features those of product-link candidates come before
\* those of other links, and among the button features those of
\* action-button candidates come before those of plain buttons.
C5_CategoryOrdering ==
  \A i, j \in 1..Len(inventory) :
    i < j =>
      /\ (Link(i) /\ Link(j) => ~(IsProductLink(From(j)) /\ ~IsProductLink(From(i))))
      /\ (Button(i) /\ Button(j) => ~(IsActionButton(From(j)) /\ ~IsActionButton(From(i))))

\* An inventory in which a product link precedes a link that comes earlier
\* in the document, and an action button precedes an earlier plain button.
C5_Witness ==
  \E i, j, k, l \in 1..Len(inventory) :
    /\ i < j /\ Link(i) /\ Link(j)
    /\ IsProductLink(From(i)) /\ ~IsProductLink(From(j))
    /\ inventory[j].el < inventory[i].el
    /\ k < l /\ Button(k) /\ Button(l)
    /\ IsActionButton(From(k)) /\ ~IsActionButton(From(l))
    /\ inventory[l].el < inventory[k].el

TypeRank(type) == CASE type = "link" -> 0 [] type = "input" -> 1 [] OTHER -> 2

\* C6: in a returned inventory the link features come first, then the input
\* features, then the button features; the scenario page yields 6 links,
\* 7 inputs and 6 buttons: 19 features with indices 0..18.
C6_AssemblyOrderAndScenario ==
  /\ \A i, j \in 1..Len(inventory) :
       i < j => TypeRank(inventory[i].type) <= TypeRank(inventory[j].type)
  /\ scans > 0 /\ Pristine(dom) \in ScenarioPages =>
       /\ Len(inventory) = 19
       /\ \A i \in 1..19 :
            /\ inventory[i].index = i - 1
            /\ inventory[i].type = IF i <= 6 THEN "link" ELSE IF i <= 13 THEN "input"
                                   ELSE "button"
            /\ i <= 3 => IsProductLink(From(i))
            /\ i \in 4..6 => ~IsProductLink(From(i))
            /\ i \in 14..15 => IsActionButton(From(i))
            /\ i \in 16..19 => ~IsActionButton(From(i))

\* The scenario page, extracted.
C6_Witness ==
  /\ scans > 0
  /\ Pristine(dom) \in ScenarioPages
  /\ Len(inventory) = 19

(***************************************************************************)
(* Properties of highlighting (checked under HighlightSpec)                *)
(***************************************************************************)
\* C7: when the restore timer of a highlightElement(element, D) call, D > 0,
\* made on an element that was not highlighted runs (D has elapsed), the
\* element's inline outline and box-shadow values are the values it had just
\* before the call.
C7_HighlightRestore ==
  (lastFired.kind = "restore" /\ lastFired.fresh)
    => InlineValues(dom[lastFired.el]) = lastFired.before

\* The timer of such a call has just run and found the element highlighted
\* (the forced outline-offset is gone): an element with an outline of its own
\* has it back.
C7_Witness ==
  /\ lastFired.kind = "restore"
  /\ lastFired.fresh
  /\ lastFired.before.outline # ""
  /\ dom[lastFired.el].outlineOffset = NoStyle
  /\ dom[lastFired.el].outline.v = lastFired.before.outline
  /\ lastFired.el \notin DOMAIN highlightedElements

\* A step that handles a CLEAR_HIGHLIGHTS message.
ClearStep == requests' = requests + 1 /\ message'.type = "CLEAR_HIGHLIGHTS"

\* No element is highlighted and no overlay is tracked.
NothingHighlighted == DOMAIN highlightedElements = {} /\ currentHighlightedEl = Null

ClearTwiceIsClearOnce == clearAllHighlights(Ui') = Ui'

\* C8 as stated: clearAllHighlights with no element highlighted and no
\* overlay tracked changes no engine state and no element style and does not
\* raise; calling it twice in a row leaves the same state as calling it once.
C8_ClearIsNoOp ==
  [][ClearStep =>
       /\ response'.success
       /\ ClearTwiceIsClearOnce
       /\ NothingHighlighted =>
            UNCHANGED <<dom, elementCache, selectorCounter, clickedElements, uiVars,
                        timers, waitVars>>]_vars

\* C8, amended: clearAllHighlights with no element highlighted and no overlay
\* tracked does not raise and changes no engine state and no element style
\* except that it sets the opacity of the pointer cue, if the page has one,
\* to '0'; calling it twice in a row leaves the same state as calling it
\* once.
C8_ClearHidesPointerOnly ==
  [][ClearStep =>
       /\ response'.success
       /\ ClearTwiceIsClearOnce
       /\ NothingHighlighted =>
            /\ pointer' = Faded(pointer)
            /\ UNCHANGED <<dom, elementCache, selectorCounter, clickedElements,
                           highlightedElements, highlightOverlay, highlightOverlayRAF,
                           currentHighlightedEl, frames, timers, waitVars>>]_vars

\* A clear request has been handled 1000 ms after a highlight: the restore
\* timer had run (no forced outline-offset is left anywhere), the page had
\* removed the element and a frame had stopped the tracking, and the pointer,
\* whose fade timer is still pending, is hidden.
C8_Witness ==
  /\ message.type = "CLEAR_HIGHLIGHTS"
  /\ NothingHighlighted
  /\ highlightOverlay.exists
  /\ frames = {}
  /\ \E e \in 1..Len(dom) : ~dom[e].attached
  /\ \A e \in 1..Len(dom) : dom[e].outlineOffset = NoStyle
  /\ pointer = [exists |-> TRUE, opacity |-> "0"]
  /\ \E i \in DOMAIN timers : timers[i].kind = "fade" /\ timers[i].left = PointerFadeMs - 1000
  /\ \A i \in DOMAIN timers : timers[i].kind # "restore"

(***************************************************************************)
(* Properties of the event waiter (checked under WaitSpec)                 *)
(***************************************************************************)
ListenersOf(w) == {l \in listeners : l.wait = w}

\* Once a wait is settled, its result and its number of resolutions stay.
SettledStays ==
  \A w \in DOMAIN waits :
    waits[w].done =>
      /\ waits'[w].done
      /\ waits'[w].result = waits[w].result
      /\ waits'[w].settles = waits[w].settles

\* C9: a waitForEvent call for click or input on a resolved element settles
\* exactly once: the first of the target event and the timeout to fire
\* decides the result, every later event or timer firing resolves nothing,
\* and after settlement none of the click/input/change listeners the call
\* attached is registered on the element.
C9_WaitSettlesOnce ==
  /\ [](\A w \in DOMAIN waits :
          waits[w].event \in {"click", "input"} =>
            /\ waits[w].el \in 1..Len(dom)
            /\ waits[w].settles = IF waits[w].done THEN 1 ELSE 0
            /\ ~waits[w].done =>
                 /\ waits[w].noops = 0
                 /\ waits[w].result = NoResponse
                 /\ ListenersOf(w) =
                      {Listener(waits[w].el, t, w) : t \in ListenedTypes(waits[w].event)}
            /\ waits[w].done =>
                 /\ ListenersOf(w) = {}
                 /\ \/ /\ waits[w].result = Success("Detected " \o waits[w].event)
                       /\ waits[w].age <= waits[w].timeoutMs
                    \/ /\ waits[w].result =
                            Failure("Timed out waiting for " \o waits[w].event)
                       /\ waits[w].age = waits[w].timeoutMs)
  /\ [][SettledStays]_vars

\* The event won the race and the timeout ran afterwards, as did a second
\* user event.
C9_Witness ==
  /\ events = 2
  /\ \E w \in DOMAIN waits :
       /\ waits[w].event = "click"
       /\ waits[w].result = Success("Detected click")
       /\ waits[w].age < waits[w].timeoutMs
       /\ waits[w].noops = 1
       /\ \A i \in DOMAIN timers : timers[i].wait # w

\* A step that handles a WAIT_FOR_EVENT message for scroll.
ScrollRequest ==
  /\ requests' = requests + 1
  /\ message'.type = "WAIT_FOR_EVENT"
  /\ message'.payload.event = "scroll"

\* C10: a waitForEvent call with event 'scroll' ignores targetIndex and
\* selector (it starts a wait on the window whatever they are, without
\* looking anything up), succeeds with 'Detected scroll' on the first scroll
\* event seen before timeoutMs (default 30000) elapses, otherwise fails with
\* a timeout error when timeoutMs elapses; it settles exactly once and its
\* scroll listener is removed on both paths.
C10_ScrollWait ==
  /\ [][ScrollRequest =>
          /\ waits' = Append(waits,
                Wait("scroll", Window,
                     IF message'.payload.timeoutMs = Undefined THEN 30000
                     ELSE message'.payload.timeoutMs))
          /\ Listener(Window, "scroll", Len(waits')) \in listeners'
          /\ ~response'.sent
          /\ UNCHANGED <<dom, elementCache, selectorCounter>>]_vars
  /\ [](\A w \in DOMAIN waits :
          waits[w].event = "scroll" =>
            /\ waits[w].settles = IF waits[w].done THEN 1 ELSE 0
            /\ ~waits[w].done =>
                 /\ waits[w].noops = 0
                 /\ Listener(Window, "scroll", w) \in listeners
                 /\ waits[w].age <= waits[w].timeoutMs
            /\ waits[w].done =>
                 /\ ListenersOf(w) = {}
                 /\ \/ /\ waits[w].result = Success("Detected scroll")
                       /\ waits[w].age <= waits[w].timeoutMs
                    \/ /\ waits[w].result = Failure("Timed out waiting for scroll")
                       /\ waits[w].age = waits[w].timeoutMs)
  /\ [][SettledStays]_vars

\* Two scroll waits asked for with a selector that matches nothing: one timed
\* out after the default 30000 ms, the other saw a scroll first.
C10_Witness ==
  /\ Len(waits) = 2
  /\ message.payload.selector = "#nope"
  /\ \E w, v \in DOMAIN waits :
       /\ waits[w].event = "scroll" /\ waits[v].event = "scroll"
       /\ waits[w].result = Failure("Timed out waiting for scroll")
       /\ waits[w].age = 30000
       /\ waits[v].result = Success("Detected scroll")
       /\ ListenersOf(w) = {} /\ ListenersOf(v) = {}

(***************************************************************************)
(* Properties of executeAction (checked under ActionSpec)                  *)
(***************************************************************************)
\* The step in which call c returns.
ReturnsNow(c) == calls[c].stage # "returned" /\ calls'[c].stage = "returned"

\* C11: EXECUTE_ACTION with action TYPE, a targetIndex k and no textInput
\* returns {success: false, error: 'No text to type'} and leaves the DOM
\* unmutated: when it returns, no element's inline style, attributes or
\* value, no highlight record and no scroll position differs from before the
\* call.
C11_TypeWithoutTextLeavesDom ==
  [][\A c \in DOMAIN calls :
       (/\ ReturnsNow(c)
        /\ calls[c].payload.action = "TYPE"
        /\ calls[c].payload.textInput = "")
         => /\ calls'[c].result = Failure("No text to type")
            /\ dom' = calls[c].before.dom
            /\ highlightedElements' = calls[c].before.hl
            /\ effects'.scrolls = calls[c].before.effects.scrolls]_vars

\* The step that receives an EXECUTE_ACTION message.
ActionRequest == requests' = requests + 1 /\ message'.type = "EXECUTE_ACTION"

\* C12: EXECUTE_ACTION with action CLICK or TYPE and targetIndex absent (null
\* or not supplied) fails with 'No target element specified' and performs no
\* extraction, highlight, scroll or click: the document, the selector engine,
\* the highlight state and the counts of effects are what they were.
C12_NoTargetNoEffect ==
  [][(/\ ActionRequest
      /\ message'.payload.action \in {"CLICK", "TYPE"}
      /\ message'.payload.targetIndex \in {NoIndex, Undefined})
       => /\ response' = Failure("No target element specified")
          /\ effects' = effects
          /\ UNCHANGED <<dom, elementCache, selectorCounter, uiVars, calls>>]_vars

KnownActions == {"CLICK", "TYPE", "SCROLL", "WAIT"}

\* C13: EXECUTE_ACTION with an action other than CLICK, TYPE, SCROLL and WAIT
\* fails with 'Unknown action: <value>' whatever the targetIndex: the response
\* sent for it, in the step of the request or when the call returns, is that
\* failure.
C13_UnknownActionFails ==
  [][/\ (/\ ActionRequest
          /\ message'.payload.action \notin KnownActions
          /\ response'.sent)
           => response' = Failure("Unknown action: " \o message'.payload.action)
     /\ \A c \in DOMAIN calls :
          (ReturnsNow(c) /\ calls[c].payload.action \notin KnownActions)
            => calls'[c].result = Failure("Unknown action: " \o calls[c].payload.action)]_vars

\* The promise a reply waits for has not settled yet.
Pending(rp) ==
  \/ rp.wait # 0 /\ ~waits[rp.wait].done
  \/ rp.call # 0 /\ calls[rp.call].stage # "returned"

\* C15: for every message the content script handles, sendResponse is called
\* exactly once, on every path: never twice, and a message whose handler has
\* finished and that waits for no unsettled promise has had its response.
C15_ExactlyOneResponse ==
  \A r \in DOMAIN replies :
    /\ replies[r].n <= 1
    /\ replies[r].n = 0 => Pending(replies[r])

\* The selector g.sel matches, in the document generateSelector left,
\* element e and nothing else.
MatchesOnly(g, e) ==
  QuerySelectorAll(g.G.dom, g.sel) = [threw |-> FALSE, els |-> <<e>>]

\* C16: every selector generateSelector returns matches, at that moment,
\* exactly one element, the one passed in; for an element of the document
\* and for one that has been removed from it alike.
C16_SelectorMatchesItsElement ==
  \A e \in 1..Len(dom) : MatchesOnly(generateSelector(Engine, e), e)

\* A CLICK action on element e has succeeded.
Clicked(e) ==
  \E c \in DOMAIN calls :
    /\ calls[c].stage = "returned"
    /\ calls[c].payload.action = "CLICK"
    /\ calls[c].result.success
    /\ calls[c].el = e

\* The step that answers a GET_FEATURES message with an inventory.
InventoryStep ==
  /\ requests' = requests + 1
  /\ message'.type = "GET_FEATURES"
  /\ response'.sent

\* C19: once a CLICK action has succeeded on an element, every later
\* extraction in which the element appears, on a page that has not changed
\* otherwise, reports its feature with already_clicked = true, whatever the
\* form of its selector; the feature of an element that was never clicked is
\* reported with already_clicked = false.
C19_ClickedIsRemembered ==
  [][(InventoryStep /\ removals = 0)
       => \A i \in 1..Len(inventory') :
            inventory'[i].already_clicked = Clicked(inventory'[i].el)]_vars

(***************************************************************************)
(* Properties of the resolver on a changing page (checked under            *)
(* MutationSpec)                                                           *)
(***************************************************************************)
\* C17: a selector handed out in an inventory keeps resolving through
\* getElementBySelector to the element it was handed out for, whatever
\* extractions and changes of the page (removals of other elements, attribute
\* changes) came after, for as long as that element stays in the document; it
\* never resolves to a different element.
C17_SelectorStaysWithElement ==
  \A i \in 1..Len(inventory) :
    InDocument(dom, inventory[i].el)
      => getElementBySelector(Engine, inventory[i].selector) = inventory[i].el

\* The selectors looked up: those of the last inventory, the marker of every
\* cache entry, and two a caller made up.
LookupSelectors ==
  {inventory[i].selector : i \in 1..Len(inventory)}
    \cup {MarkerSelector(k) : k \in DOMAIN elementCache}
    \cup {"#go", "#nope"}

\* The cache entries whose element has left the document.
Dangling == {k \in DOMAIN elementCache : ~dom[elementCache[k]].attached}

\* getElementBySelector returns only elements of the document.
NeverDetached ==
  \A s \in LookupSelectors :
    \E r \in {getElementBySelector(Engine, s)} : r # Null => dom[r].attached

\* C18 as claimed: getElementBySelector never returns an element that is not
\* attached, and the lookup of a marker whose cached element was removed
\* reports null.
C18_DanglingIsNull ==
  /\ NeverDetached
  /\ \A k \in Dangling : getElementBySelector(Engine, MarkerSelector(k)) = Null

\* C18, amended: getElementBySelector never returns an element that is not
\* attached; the lookup of a marker whose cached element was removed falls
\* back to the document: it returns an attached element that carries the
\* marker, and null when no attached element carries it.
C18_DanglingFallsBack ==
  /\ NeverDetached
  /\ \A k \in Dangling :
       \E r \in {getElementBySelector(Engine, MarkerSelector(k))} :
         /\ r # Null => dom[r].attached /\ dom[r].bbid = k /\ r # elementCache[k]
         /\ (\A e \in 1..Len(dom) : dom[e].attached => dom[e].bbid # k) => r = Null

\* A marker whose element was removed is looked up: not found.
C18_Witness ==
  \E k \in Dangling :
    /\ dom[elementCache[k]].bbid = k
    /\ getElementBySelector(Engine, MarkerSelector(k)) = Null

(***************************************************************************)
(* Properties of overlay tracking (checked under OverlaySpec)              *)
(***************************************************************************)
\* The step that starts tracking an element other than the one tracked.
Retargets == currentHighlightedEl' # Null /\ currentHighlightedEl' # currentHighlightedEl

\* C20: after any sequence of startOverlayTracking and stopOverlayTracking
\* calls and animation-frame callbacks at most one element is tracked
\* (currentHighlightedEl), at most one overlay node is in the document, and at
\* most one callback of the tracking loop is pending, the one whose handle
\* highlightOverlayRAF holds; none is pending when nothing is tracked; and the
\* step that starts tracking a new element leaves exactly the new loop's
\* callback pending.
C20_OneOverlayOneLoop ==
  /\ [](/\ Cardinality(frames) <= 1
        /\ frames \subseteq {highlightOverlayRAF}
        /\ highlightOverlay.nodes <= 1
        /\ currentHighlightedEl = Null => frames = {})
  /\ [][Retargets => frames' = {highlightOverlayRAF'} /\ Cardinality(frames') = 1]_vars

\* Tracking was started, a frame positioned the overlay, the next callback
\* is pending, and tracking has moved on to a second element.
C20_Witness ==
  /\ currentHighlightedEl = 2
  /\ currentHighlightedEl \notin DOMAIN highlightedElements
  /\ 1 \in DOMAIN highlightedElements
  /\ frames = {highlightOverlayRAF}
  /\ highlightOverlay = [exists |-> TRUE, display |-> "block", nodes |-> 1]

(***************************************************************************)
(* Properties of the background worker (checked under BackgroundSpec)      *)
(***************************************************************************)
\* C23: ensureContentScript injects the content script only after a PING to
\* the tab has failed.  For a blocked URL it returns the error without a PING
\* or an injection; when the PING is answered it returns ok without an
\* injection; executeScript is called, once, only when the PING found no
\* content script in the tab; after an injection it returns ok once 100 ms
\* have passed, or an error if the injection raised.
C23_InjectOnlyAfterFailedPing ==
  \A r \in DOMAIN routes :
    \E c \in {routes[r]} :
      /\ getInjectionBlockReason(c.url) # ""
           => /\ c.result = Err(getInjectionBlockReason(c.url))
              /\ c.pings = 0 /\ c.injects = 0
      /\ c.seen > 0 => c.injects = 0 /\ c.result = Ok
      /\ c.injects > 0 => c.injects = 1 /\ c.pings = 1 /\ c.seen = 0
      /\ (c.result.returned /\ c.injects > 0)
           => IF c.raised THEN ~c.result.ok /\ c.age = 0
              ELSE c.result = Ok /\ c.age = InjectWaitMs
      /\ c.result.ok => c.seen > 0 \/ (c.injects = 1 /\ ~c.raised)

\* One call found the tab without content script, injected it and returned
\* ok 100 ms later; a later call had its PING answered and returned ok without
\* injecting.
C23_Witness ==
  /\ Len(routes) = 2
  /\ routes[1].result = Ok /\ routes[1].injects = 1 /\ routes[1].age = InjectWaitMs
  /\ routes[2].result = Ok /\ routes[2].injects = 0 /\ routes[2].seen = 1
  /\ tab.scripts = 1

\* Position of the first step named in the steps of a call, 0 if it has none.
StepAt(call, step) ==
  IF \E i \in 1..Len(call.steps) : call.steps[i] = step
    THEN CHOOSE i \in 1..Len(call.steps) :
           call.steps[i] = step /\ \A j \in 1..(i - 1) : call.steps[j] # step
  ELSE 0

\* C25: within one executeAction CLICK or TYPE call that reaches the action,
\* the steps on the page occur strictly in the order highlight the element,
\* scroll it into view, timed pause, action (click or value set).
C25_HighlightScrollPauseAct ==
  \A c \in DOMAIN calls :
    \A act \in {"click", "type"} :
      StepAt(calls[c], act) > 0
        => /\ 0 < StepAt(calls[c], "highlight")
           /\ StepAt(calls[c], "highlight") < StepAt(calls[c], "scroll")
           /\ StepAt(calls[c], "scroll") < StepAt(calls[c], "pause")
           /\ StepAt(calls[c], "pause") < StepAt(calls[c], act)

\* The step that receives an EXECUTE_ACTION message for action CLICK or TYPE
\* with a targetIndex that is a number.
TargetedRequest ==
  /\ ActionRequest
  /\ message'.payload.action \in {"CLICK", "TYPE"}
  /\ IsNumber(message'.payload.targetIndex)

\* Nothing was cleared, scrolled, highlighted, clicked or typed in the step:
\* the document is the one the extraction r left.
NothingActedOn(r) ==
  /\ dom' = r.G.dom
  /\ UNCHANGED <<uiVars, timers, calls, clickedElements, waitVars>>
  /\ effects'.scrolls = effects.scrolls
  /\ effects'.clicks = effects.clicks

\* C26: executeAction CLICK or TYPE resolves its target against an inventory
\* extracted during that same call, never against an earlier one.  When that
\* inventory has no feature with index k the call fails with 'Element with
\* index k not found', when the feature's selector resolves to nothing with
\* 'Could not find element: <selector>', and in both cases nothing is
\* cleared, scrolled, highlighted, clicked or typed; otherwise the call goes
\* on with the element and the text of the fresh feature.
C26_FreshInventory ==
  [][TargetedRequest
       => \E r \in {extractPageFeatures(Engine, clickedElements)} :
          \E k \in {message'.payload.targetIndex} :
          \E found \in {SelectSeq(r.features, LAMBDA f : f.index = k)} :
            /\ effects'.extractions = effects.extractions + 1
            /\ (~r.threw /\ found = <<>>)
                 => /\ response' = Failure("Element with index " \o ToString(k) \o " not found")
                    /\ NothingActedOn(r)
            /\ (~r.threw /\ found # <<>>)
                 => IF getElementBySelector(r.G, found[1].selector) = Null
                      THEN /\ response' =
                                Failure("Could not find element: " \o found[1].selector)
                           /\ NothingActedOn(r)
                    ELSE /\ Len(calls') = Len(calls) + 1
                         /\ calls'[Len(calls')].el = found[1].el
                         /\ calls'[Len(calls')].text = found[1].text]_vars

\* An inventory was handed out, the page removed an element, and a CLICK
\* for an index that only the earlier inventory had failed as not found.
C26_Witness ==
  /\ message.type = "EXECUTE_ACTION"
  /\ message.payload.action = "CLICK"
  /\ message.payload.targetIndex = 1
  /\ removals = 1
  /\ \E i \in 1..Len(inventory) : inventory[i].index = 1
  /\ response = Failure("Element with index 1 not found")
  /\ calls = <<>>
  /\ highlightedElements = EmptyMap

(***************************************************************************)
(* Further properties of highlighting (checked under HighlightSpec)        *)
(***************************************************************************)
\* Element e carries the highlight of the last request, which succeeded and
\* asked for a duration <= 0.
StickyHighlighted(e) ==
  /\ message.type = "HIGHLIGHT_ELEMENT"
  /\ response.success
  /\ message.payload.duration # Undefined
  /\ message.payload.duration <= 0
  /\ e \in DOMAIN highlightedElements

\* C27: a highlight applied with duration <= 0 is sticky: it is removed only
\* by clearAllHighlights, which runs in the handlers of requests, and never by
\* an auto-restore timer, the timer of an earlier timed highlight of the same
\* element included.
C27_StickyStays ==
  [][\A e \in 1..Len(dom) :
       (StickyHighlighted(e) /\ e \notin DOMAIN highlightedElements')
         => requests' = requests + 1]_vars

\* Element e carries none of the properties highlightElement forces.
NothingForced(el) ==
  /\ el.outline # Important(HighlightOutline)
  /\ el.outlineOffset # Important(HighlightOffset)
  /\ el.boxShadow # Important(HighlightShadow)

\* C28: after clearAllHighlights has returned (here: after a CLEAR_HIGHLIGHTS
\* request) every element that was highlighted has the outline and box-shadow
\* it had before and none of the forced properties outline, outline-offset
\* and box-shadow; the record map is empty, no element is overlay-tracked, no
\* tracking frame is pending and the overlay is hidden.
C28_ClearRestoresAll ==
  [][ClearStep
       => /\ \A e \in DOMAIN highlightedElements :
               /\ InlineValues(dom'[e]) = highlightedElements[e]
               /\ NothingForced(dom'[e])
          /\ highlightedElements' = EmptyMap
          /\ currentHighlightedEl' = Null
          /\ frames' = {}
          /\ highlightOverlay'.display = "none"]_vars

\* C29: the clicked-elements memo only grows, and an entry is added only in
\* the step in which an executeAction CLICK performs the native click and
\* returns success; every other step (GET_FEATURES, PING, TYPE, SCROLL, WAIT,
\* a failed CLICK, timers, changes of the page) leaves it unchanged.
C29_MemoOnlyGrows ==
  [][/\ clickedElements \subseteq clickedElements'
     /\ clickedElements' # clickedElements
          => /\ effects'.clicks = effects.clicks + 1
             /\ \E c \in DOMAIN calls :
                  /\ ReturnsNow(c)
                  /\ calls[c].payload.action = "CLICK"
                  /\ calls'[c].result.success
                  /\ StepAt(calls'[c], "click") > 0]_vars

\* Two elements were clicked one after the other and the memo holds both.
C29_Witness ==
  /\ Cardinality(clickedElements) = 2
  /\ effects.clicks = 2
  /\ \A c \in DOMAIN calls : calls[c].stage = "returned" /\ calls[c].result.success

(***************************************************************************)
(* Further properties of the selector engine (checked under MutationSpec)  *)
(***************************************************************************)
\* The number of elements of d a selector matches; none when it is rejected.
MatchCount(d, s) ==
  LET r == QuerySelectorAll(d, s) IN IF r.threw THEN 0 ELSE Len(r.els)

\* The candidates of an element before the marker, in priority order, each
\* with whether the element has it.
CandidatesOf(el) ==
  << [present |-> el.id # "" /\ ValidId(el.id), sel |-> "#" \o el.id],
     [present |-> el.tag \in {"input", "textarea", "select"} /\ el.name # "",
      sel |-> el.tag \o "[name=\"" \o el.name \o "\"]"],
     [present |-> Len(StableClasses(el)) > 0,
      sel |-> el.tag \o "." \o Join(Take(StableClasses(el), 3), ".")] >>

Accepted(d, el) ==
  {i \in 1..3 : CandidatesOf(el)[i].present /\ MatchCount(d, CandidatesOf(el)[i].sel) = 1}

\* C30: for every element of every reachable document, generateSelector
\* returns the first candidate, in the order #id, tag[name], tag.classes,
\* that the element has and that matches exactly one element, and changes
\* nothing; when there is none it returns the data-bb-id marker of an id that
\* is not yet a key of the cache, writes that id on the element, records the
\* element under it and advances the counter.  Over every step the counter
\* never decreases and no cache entry is removed or replaced.
C30_SelectorPriority ==
  /\ [](\A e \in DOMAIN dom :
          LET r == generateSelector(Engine, e)
              ok == Accepted(dom, dom[e])
              first == CHOOSE i \in ok : \A j \in ok : i <= j
              uniqueId == "bb-" \o ToString(selectorCounter)
          IN IF ok # {}
               THEN r.sel = CandidatesOf(dom[e])[first].sel /\ r.G = Engine
             ELSE /\ r.sel = "[data-bb-id=\"" \o uniqueId \o "\"]"
                  /\ uniqueId \notin DOMAIN elementCache
                  /\ DOMAIN r.G.cache = DOMAIN elementCache \cup {uniqueId}
                  /\ r.G.cache[uniqueId] = e
                  /\ \A k \in DOMAIN elementCache : r.G.cache[k] = elementCache[k]
                  /\ r.G.ctr = selectorCounter + 1
                  /\ r.G.dom = [dom EXCEPT ![e].bbid = uniqueId])
  /\ [][/\ selectorCounter' >= selectorCounter
        /\ \A k \in DOMAIN elementCache :
             k \in DOMAIN elementCache' /\ elementCache'[k] = elementCache[k]]_vars

\* An inventory in which one element got the marker although it has an earlier
\* candidate (which is not unique), and another got one of its candidates.
C30_Witness ==
  /\ scans > 0
  /\ \E i, j \in DOMAIN inventory :
       /\ dom[inventory[i].el].bbid # ""
       /\ inventory[i].selector = "[data-bb-id=\"" \o dom[inventory[i].el].bbid \o "\"]"
       /\ \E k \in 1..3 : CandidatesOf(dom[inventory[i].el])[k].present
       /\ Accepted(dom, dom[inventory[i].el]) = {}
       /\ \E k \in Accepted(dom, dom[inventory[j].el]) :
            inventory[j].selector = CandidatesOf(dom[inventory[j].el])[k].sel

\* C31: a routed message (one of the six content types with target
\* 'content') has at most one sendResponse call at any time and, once its
\* handling has ended, exactly one: the 'No active tab found' error when
\* there is no active tab, the error of ensureContentScript when it did not
\* return ok, lastError.message when chrome.tabs.sendMessage reported
\* lastError, and otherwise the response of the content script as received;
\* and the handling of every routed message ends.
C31_Answered(relay) ==
  /\ Len(relay.sent) = 1
  /\ relay.sent[1] =
       IF relay.route = Null THEN Answer(FALSE, "No active tab found", "")
       ELSE IF ~routes[relay.route].result.ok
         THEN Answer(FALSE, routes[relay.route].result.error, "")
       ELSE IF relay.reply.lastError # "" THEN Answer(FALSE, relay.reply.lastError, "")
       ELSE relay.reply.response

C31_Routed(i) == i \in DOMAIN relays /\ IsRouted(relays[i].type, relays[i].target)
C31_Done(i) == i \in DOMAIN relays /\ relays[i].stage = "done"

C31_OneResponse ==
  /\ [](\A i \in DOMAIN relays :
          IsRouted(relays[i].type, relays[i].target)
            => /\ Len(relays[i].sent) <= 1
               /\ relays[i].stage = "done" <=> Len(relays[i].sent) = 1
               /\ relays[i].stage = "done" => C31_Answered(relays[i]))
  /\ \A i \in 1..MaxRelays : [](C31_Routed(i) => <>C31_Done(i))

\* Two routed messages were answered: one with the response of the content
\* script after an injection, one with an error of the background worker.
C31_Witness ==
  /\ Len(relays) = 2
  /\ \A i \in DOMAIN relays : relays[i].stage = "done"
  /\ \E i, j \in DOMAIN relays :
       /\ relays[i].reply.called /\ relays[i].reply.lastError = ""
       /\ relays[i].sent = <<relays[i].reply.response>>
       /\ routes[relays[i].route].injects = 1
       /\ ~relays[j].sent[1].success
       /\ ~relays[j].reply.called

\* The executeScript call of ensureContentScript call r has succeeded.
C34_Injected(r) ==
  /\ routes[r].injects > 0
  /\ ~routes[r].raised
  /\ routes[r].stage \in {"waiting", "returned"}

\* C34: of the ensureContentScript calls made for two routed messages, at
\* most one injects the content script into the tab, and every forwarded
\* message is answered by at most one content-script listener.
C34_InjectedAtMostOnce ==
  /\ \A i, j \in DOMAIN relays :
       (i # j /\ relays[i].route # Null /\ relays[j].route # Null)
         => ~(C34_Injected(relays[i].route) /\ C34_Injected(relays[j].route))
  /\ \A i \in DOMAIN relays : relays[i].answers # Undefined => relays[i].answers <= 1

\* C32: for every element of every reachable document, a second call of
\* generateSelector made right after a first one returns the same selector
\* and leaves the element cache as the first call left it.
C32_SelectorIdempotent ==
  \A e \in DOMAIN dom :
    LET first == generateSelector(Engine, e)
        second == generateSelector(first.G, e)
    IN /\ second.sel = first.sel
       /\ second.G.cache = first.G.cache

\* Two inventories that list the same elements with the same type, text and
\* href at the same indices.
C33_SameInventory(a, b) ==
  /\ Len(a) = Len(b)
  /\ \A k \in 1..Len(a) :
       /\ a[k].type = b[k].type
       /\ a[k].text = b[k].text
       /\ a[k].href = b[k].href
       /\ a[k].el = b[k].el
       /\ a[k].index = b[k].index

\* C33: after a GET_FEATURES that returned an inventory, on a page that is
\* left alone, the next extraction returns an inventory with the same type,
\* text, href and element at every index, and the lookup executeAction makes
\* for targetIndex k ends with the element the inventory reported at k.
C33_StableInventory ==
  (scans > 0 /\ message.type = "GET_FEATURES" /\ response.success)
    => \E r \in {extractPageFeatures(Engine, clickedElements)} :
         /\ ~r.threw
         /\ C33_SameInventory(inventory, r.features)
         /\ \A k \in 1..Len(inventory) :
              ActionElement(r, SelectSeq(Features(r), LAMBDA f : f.index = k - 1))
                = inventory[k].el

\* The auto-restore timer of the only request made so far, a HIGHLIGHT_ELEMENT
\* that succeeded with a duration > 0, runs in this step.
C35_DurationElapses ==
  /\ requests = 1
  /\ message.type = "HIGHLIGHT_ELEMENT"
  /\ response.success
  /\ DurationOf(message.payload) > 0
  /\ Len(timers') < Len(timers)
  /\ lastFired'.kind = "restore"

\* C35: once the duration of a successful HIGHLIGHT_ELEMENT request has
\* elapsed, nothing of its highlight remains: the element has its outline and
\* box-shadow back and no forced property, it has no highlight record, and
\* the overlay is hidden and tracks nothing, with no tracking frame pending.
C35_NothingRemains ==
  [][C35_DurationElapses
       => /\ lastFired'.el \notin DOMAIN highlightedElements'
          /\ InlineValues(dom'[lastFired'.el]) = lastFired'.before
          /\ NothingForced(dom'[lastFired'.el])
          /\ currentHighlightedEl' = Null
          /\ highlightOverlay'.display = "none"
          /\ frames' = {}]_vars

\* The features the three loops of an extraction collect on the present
\* page, before the global de-duplication.
C36_Collected ==
  LET x == CollectButtons(CollectInputs(CollectLinks(
             [G |-> Engine, index |-> 0, links |-> <<>>, inputs |-> <<>>,
              buttons |-> <<>>, threw |-> FALSE],
             clickedElements), clickedElements), clickedElements)
  IN IF x.threw THEN <<>> ELSE Assemble(x.links, x.inputs, x.buttons)

\* C36: the global de-duplication drops a collected feature only when an
\* earlier collected feature has the same type, the same text and the same
\* href; features that differ in text or in href are both kept, whether or
\* not their text or href holds a ':'.
C36_DedupExact ==
  \E raw \in {C36_Collected} :
    \E kept \in {UniqueFeatures(raw, {})} :
      \A i \in 1..Len(raw) :
        \/ \E k \in 1..Len(kept) : kept[k] = raw[i]
        \/ \E j \in 1..(i - 1) :
             /\ raw[j].type = raw[i].type
             /\ raw[j].text = raw[i].text
             /\ raw[j].href = raw[i].href

\* C37: no two features of a returned inventory originate from the same
\* element.
C37_OneFeaturePerElement ==
  \A i, j \in 1..Len(inventory) : inventory[i].el = inventory[j].el => i = j

\* Element el is a link the extractor accepts when it meets it first: an
\* anchor of the document outside header, footer and nav, visible, with text
\* and with an href that is not empty, javascript:, '#' or a fragment other
\* than MainContent.
C38_Acceptable(el) ==
  /\ el.attached
  /\ el.tag = "a"
  /\ el.anc \cap NavAncestors = {}
  /\ el.href # "" /\ ~StartsWith(el.href, "javascript:") /\ el.href # "#"
  /\ ~(StartsWith(el.href, "#") /\ ~Includes(el.href, "MainContent"))
  /\ isVisible(el)
  /\ el.text # ""

\* C38: on a page with fewer than 60 acceptable links, the inventory returned
\* holds, for every acceptable link, a link feature with its href, whatever
\* other link candidates with that href the page holds.
C38_VisibleLinkListed ==
  (scans > 0 /\ response.success
     /\ Cardinality({e \in DOMAIN dom : C38_Acceptable(dom[e])}) < MaxLinks)
    => \A e \in DOMAIN dom :
         C38_Acceptable(dom[e])
           => \E k \in 1..Len(inventory) :
                inventory[k].type = "link" /\ inventory[k].href = dom[e].href

(***************************************************************************)
(* Further properties of waitForEvent (checked under WaitSpec)             *)
(***************************************************************************)
UnknownEventRequest ==
  /\ requests' = requests + 1
  /\ message'.type = "WAIT_FOR_EVENT"
  /\ message'.payload.event \notin {"click", "input", "scroll"}

\* C14: waitForEvent with an event other than click, input and scroll fails
\* immediately with 'Unknown event: <kind>', whatever selector and targetIndex
\* are (none, or unresolvable, included): the call ends in the step of the
\* request, by a returned failure or by a promise settled at once, and either
\* way with that error.
C14_UnknownEventFails ==
  [][UnknownEventRequest
       => \E failure \in {Failure("Unknown event: " \o message'.payload.event)} :
            IF Len(waits') > Len(waits)
              THEN /\ waits'[Len(waits')].done
                   /\ waits'[Len(waits')].result = failure
            ELSE response' = failure]_vars

(***************************************************************************)
(* Further properties of the extractor (checked under MutationSpec)        *)
(***************************************************************************)
\* The step that receives a GET_FEATURES message.
FeaturesRequest == requests' = requests + 1 /\ message'.type = "GET_FEATURES"

\* C22: extractPageFeatures never fails outright: whatever an element of the
\* page makes the extractor raise, every GET_FEATURES is answered with an
\* inventory, taken in that step, in which no feature is that of an element
\* that raised.
C22_ExtractionNeverFails ==
  [][FeaturesRequest
       => /\ response'.sent /\ response'.success
          /\ inventory' = extractPageFeatures(Engine, clickedElements).features
          /\ \A i \in 1..Len(inventory') : ~LabelQueryThrows(dom[inventory'[i].el])]_vars

(***************************************************************************)
(* Further properties of executeAction (checked under ActionSpec)          *)
(***************************************************************************)
\* Element e carries no highlight: no record is kept for it and none of the
\* forced properties is set on it.
Unhighlighted(e) ==
  /\ e \notin DOMAIN highlightedElements
  /\ dom[e].outline # Important(HighlightOutline)
  /\ dom[e].boxShadow # Important(HighlightShadow)

\* C21: when a request settles, with success or with failure, cleanup has
\* been performed on that path: for an executeAction call that reached its
\* element, at the step in which it returns clearAllHighlights has run, so the
\* element carries no highlight and nothing is overlay-tracked
\* (executeAction attaches no listener).
C21_SettledMeansCleanedUp ==
  [][\A c \in DOMAIN calls :
       (ReturnsNow(c) /\ calls[c].el # Null)
         => /\ Unhighlighted(calls[c].el)'
            /\ currentHighlightedEl' = Null]_vars

\* The timers waitForEvent call w scheduled that are still pending.
TimersOf(w) == {i \in DOMAIN timers : timers[i].kind = "wait" /\ timers[i].wait = w}

\* C24: when a click, input or scroll wait has settled because the awaited
\* event fired, its timeout timer is torn down with its listener: no timer
\* the call scheduled is still pending.
C24_TimerTornDown ==
  \A w \in DOMAIN waits :
    (waits[w].done /\ waits[w].result.success)
      => ListenersOf(w) = {} /\ TimersOf(w) = {}

====
